---- MODULE Spec2Model ----
(***************************************************************************)
(* ContextForge: the header-propagating sidecar proxy (internal/handler,   *)
(* internal/config) and the pod admission webhook.                         *)
(*                                                                         *)
(* Header names, HTTP methods and request paths are sequences of           *)
(* one-character strings, so that strings.ToUpper, strings.TrimSpace,      *)
(* http.CanonicalHeaderKey and regexp matching are computed character by   *)
(* character.  Header values are plain strings; "" is the empty value.     *)
(* An http.Header is a function from canonical names to the first value    *)
(* of that name (multi-valued headers are not modelled).                   *)
(***************************************************************************)
EXTENDS Integers, Sequences, FiniteSets, TLC

VARIABLES
    handler,     \* *ProxyHandler: [rules, headers, generators], set by NewProxyHandler
    transport,   \* *HeaderPropagatingTransport: [headers], shared by every request
    pc,          \* per connection: position of the request being served
    inbound,     \* per connection: the request as the server read it
    req,         \* per connection: r.Header as ServeHTTP holds it (extractHeaders writes it)
    ctx,         \* per connection: the value under ContextKeyHeaders of the request's context
    genLog,      \* per connection: the Generate() calls made for the request
    matched,     \* per connection: indexes of the rules whose MatchesRequest returned true
    directed,    \* per connection: outreq.Header as handed to transport.RoundTrip
    sent,        \* per connection: the header the base transport sent to the upstream
    active,      \* metrics.ActiveConnections (gauge) and, per connection, whether
                 \* ServeHTTP's deferred Dec is still to run
    lastDone,    \* history (where it is kept): the connection and the inbound header of
                 \* the request that finished last
    pod,         \* admission: the pod object Default works on
    podIn,       \* admission: the pod as it was handed to the last Default call
    admissions,  \* admission: number of Default calls made on the pod
    injections,  \* admission: number of Default calls that changed the pod
    review,      \* admission: what ValidateCreate answered for the pod, once it has
    cluster,     \* controller: the pods and the policy the API server stores, the
                 \* reconciler's work queue and what the last reconcile returned
    startup,     \* main: the environment of the process, the configuration Load
                 \* returned and how far main has come
    rulesJSON,   \* the HEADER_RULES document as written (where it is kept)
    running,     \* the proxy process is alive
    upstream,    \* the target application accepts connections
    failures,    \* requests that failed on an unreachable upstream (saturating)
    cfgRate,     \* cfg.RateLimitEnabled and cfg.RateLimitBurst
    limiter,     \* *RateLimiter: [enabled, burst, tokens], where one is built
    window,      \* history (where it is kept): the requests the limiter was asked
                 \* about since it was built, those it admitted, and whether
                 \* the bucket was refilled in between
    admitted,    \* per connection: what the rate limiter decided for the request
    uri,         \* per connection: the form of the request target and the host it names
    resp,        \* per connection: the status and body written to the client
    dest         \* per connection: the host the outbound request was sent to

vars == <<handler, transport, active, pc, inbound, req, ctx, genLog, matched, directed,
          sent, lastDone, pod, podIn, admissions, injections, review, cluster, startup,
          window, rulesJSON,
          running, upstream, failures, cfgRate, limiter, admitted, uri, resp, dest>>

proxyVars == <<handler, transport, active, pc, inbound, req, ctx, genLog, matched,
               directed, sent, lastDone>>

podVars == <<pod, podIn, admissions, injections, review, cluster>>

serverVars == <<startup, window, rulesJSON, running, upstream, failures, cfgRate, limiter,
                admitted, uri, resp, dest>>

(***************************************************************************)
(* Bounds.                                                                 *)
(***************************************************************************)
MaxConns == 2

MaxRules == 2

MaxAdmissions == 2

(***************************************************************************)
(* Characters and strings.                                                 *)
(***************************************************************************)
LowerChars ==
    <<"a", "b", "c", "d", "e", "f", "g", "h", "i", "j", "k", "l", "m",
      "n", "o", "p", "q", "r", "s", "t", "u", "v", "w", "x", "y", "z">>

UpperChars ==
    <<"A", "B", "C", "D", "E", "F", "G", "H", "I", "J", "K", "L", "M",
      "N", "O", "P", "Q", "R", "S", "T", "U", "V", "W", "X", "Y", "Z">>

Letters == 1..Len(LowerChars)

\* unicode.ToUpper and unicode.ToLower on the characters above; any other
\* character is its own upper and lower case.
UpperOf == [ch \in {LowerChars[i] : i \in Letters} |->
                UpperChars[CHOOSE i \in Letters : LowerChars[i] = ch]]

LowerOf == [ch \in {UpperChars[i] : i \in Letters} |->
                LowerChars[CHOOSE i \in Letters : UpperChars[i] = ch]]

IsLower(ch) == ch \in DOMAIN UpperOf

IsUpper(ch) == ch \in DOMAIN LowerOf

ToUpperCh(ch) == IF IsLower(ch) THEN UpperOf[ch] ELSE ch

ToLowerCh(ch) == IF IsUpper(ch) THEN LowerOf[ch] ELSE ch

ToUpper(s) == [i \in 1..Len(s) |-> ToUpperCh(s[i])]

RECURSIVE TrimLeft(_)
TrimLeft(s) == IF s # <<>> /\ Head(s) = " " THEN TrimLeft(Tail(s)) ELSE s

RECURSIVE TrimRight(_)
TrimRight(s) ==
    IF s # <<>> /\ s[Len(s)] = " " THEN TrimRight(SubSeq(s, 1, Len(s) - 1)) ELSE s

TrimSpace(s) == TrimRight(TrimLeft(s))

\* A byte net/textproto accepts in a header field name.
ValidHeaderFieldByte(ch) == IsLower(ch) \/ IsUpper(ch) \/ ch = "-"

\* A key function that leaves the name as it is spelled.
RawHeaderKey(s) == s

\* http.CanonicalHeaderKey: a name holding an invalid byte is returned as it
\* is; otherwise the first letter and every letter after a hyphen is
\* upper-cased and every other letter lower-cased.
CanonicalHeaderKey(s) ==
    IF \E i \in 1..Len(s) : ~ValidHeaderFieldByte(s[i])
    THEN s
    ELSE [i \in 1..Len(s) |->
            IF i = 1 \/ s[i - 1] = "-" THEN ToUpperCh(s[i]) ELSE ToLowerCh(s[i])]

(***************************************************************************)
(* http.Header.                                                            *)
(***************************************************************************)
EmptyHeader == [n \in {} |-> ""]

\* Header.Get: the first value of the canonicalised key, "" when there is none.
Get(h, key) ==
    LET k == CanonicalHeaderKey(key) IN IF k \in DOMAIN h THEN h[k] ELSE ""

\* Header.Set: replaces the values of the canonicalised key.
Set(h, key, value) ==
    LET k == CanonicalHeaderKey(key)
    IN  [n \in DOMAIN h \cup {k} |-> IF n = k THEN value ELSE h[n]]

\* Header.Del.
Del(h, key) ==
    LET k == CanonicalHeaderKey(key) IN [n \in DOMAIN h \ {k} |-> h[n]]

\* m[key] = value on a Go map[string]string: the key is used as it is.
MapPut(m, key, value) ==
    [n \in DOMAIN m \cup {key} |-> IF n = key THEN value ELSE m[n]]

(***************************************************************************)
(* internal/config: HeaderRule.                                            *)
(***************************************************************************)
\* The nil *regexp.Regexp.
NoRegex == [nil |-> TRUE, caret |-> FALSE, lit |-> <<>>]

\* A match that anchors every pattern at the start of the path.
AnchoredMatchString(re, path) ==
    /\ Len(re.lit) <= Len(path)
    /\ SubSeq(path, 1, Len(re.lit)) = re.lit

\* regexp.MatchString for the patterns "lit" and "^lit": lit occurs in the
\* path, at its start when the pattern is anchored.
MatchString(re, path) ==
    \E i \in 1..(Len(path) - Len(re.lit) + 1) :
        /\ re.caret => i = 1
        /\ SubSeq(path, i, i + Len(re.lit) - 1) = re.lit

RECURSIVE MethodLoop(_, _, _)
MethodLoop(methods, i, upperMethod) ==
    IF i > Len(methods) THEN FALSE
    ELSE IF ToUpper(methods[i]) = upperMethod THEN TRUE
    ELSE MethodLoop(methods, i + 1, upperMethod)

RECURSIVE ExactMethodLoop(_, _, _)
ExactMethodLoop(methods, i, method) ==
    IF i > Len(methods) THEN FALSE
    ELSE IF methods[i] = method THEN TRUE
    ELSE ExactMethodLoop(methods, i + 1, method)

\* A match that compares the methods as they are spelled.
CaseSensitiveMatchesRequest(r, path, method) ==
    IF ~r.CompiledPathRegex.nil /\ ~MatchString(r.CompiledPathRegex, path)
    THEN FALSE
    ELSE IF Len(r.Methods) > 0 /\ ~ExactMethodLoop(r.Methods, 1, method)
    THEN FALSE
    ELSE TRUE

\* A match that ignores the rule's filters.
UnfilteredMatchesRequest(r, path, method) == TRUE

MatchesRequest(r, path, method) ==
    IF ~r.CompiledPathRegex.nil /\ ~MatchString(r.CompiledPathRegex, path)
    THEN FALSE
    ELSE IF Len(r.Methods) > 0 /\ ~MethodLoop(r.Methods, 1, ToUpper(method))
    THEN FALSE
    ELSE TRUE

(***************************************************************************)
(* internal/config: Load, as far as the header rules go.  The environment  *)
(* holds HEADER_RULES as the rule list json.Unmarshal yields (<<>> when    *)
(* the variable is unset or empty) and HEADERS_TO_PROPAGATE as the list of *)
(* its comma-separated parts.                                              *)
(***************************************************************************)
GeneratorTypes == {"uuid", "ulid", "timestamp"}

ValidMethods ==
    {<<"G", "E", "T">>, <<"P", "O", "S", "T">>, <<"P", "U", "T">>,
     <<"D", "E", "L", "E", "T", "E">>, <<"P", "A", "T", "C", "H">>,
     <<"H", "E", "A", "D">>, <<"O", "P", "T", "I", "O", "N", "S">>,
     <<"T", "R", "A", "C", "E">>, <<"C", "O", "N", "N", "E", "C", "T">>}

\* validateHeaderName: ^[a-zA-Z0-9][a-zA-Z0-9-]*$, 1 to 256 characters.
validateHeaderName(name) ==
    /\ Len(name) > 0
    /\ Len(name) <= 256
    /\ name[1] # "-"
    /\ \A i \in 1..Len(name) : ValidHeaderFieldByte(name[i])

\* The body of parseHeaderRules' loop for one rule: the rule as stored, or an error.
parseHeaderRule(raw) ==
    IF ~validateHeaderName(raw.Name) THEN [err |-> TRUE]
    ELSE
    LET genType == IF raw.Generate /\ raw.GeneratorType = "" THEN "uuid"
                   ELSE raw.GeneratorType
    IN  IF raw.Generate /\ genType \notin GeneratorTypes THEN [err |-> TRUE]
        ELSE IF \E i \in 1..Len(raw.Methods) : ToUpper(raw.Methods[i]) \notin ValidMethods
        THEN [err |-> TRUE]
        ELSE [err |-> FALSE,
              rule |-> [Name |-> raw.Name,
                        Generate |-> raw.Generate,
                        GeneratorType |-> genType,
                        Propagate |-> IF ~raw.Propagate THEN TRUE ELSE raw.Propagate,
                        CompiledPathRegex |-> raw.PathRegex,
                        Methods |-> raw.Methods]]

parseHeaderRules(input) ==
    IF \E i \in 1..Len(input) : parseHeaderRule(input[i]).err
    THEN [err |-> TRUE]
    ELSE [err |-> FALSE, rules |-> [i \in 1..Len(input) |-> parseHeaderRule(input[i]).rule]]

\* parseHeaders: the trimmed non-empty parts, each a valid header name.
parseHeaders(parts) ==
    LET trimmed == [i \in 1..Len(parts) |-> TrimSpace(parts[i])]
        kept == SelectSeq(trimmed, LAMBDA h : h # <<>>)
    IN  IF \E i \in 1..Len(kept) : ~validateHeaderName(kept[i])
        THEN [err |-> TRUE]
        ELSE [err |-> FALSE, headers |-> kept]

LegacyRule(h) ==
    [Name |-> h, Generate |-> FALSE, GeneratorType |-> "", Propagate |-> TRUE,
     CompiledPathRegex |-> NoRegex, Methods |-> <<>>]

RECURSIVE PropagatedNames(_, _)
PropagatedNames(rules, i) ==
    IF i > Len(rules) THEN <<>>
    ELSE (IF rules[i].Propagate THEN <<rules[i].Name>> ELSE <<>>)
         \o PropagatedNames(rules, i + 1)

Digits == <<"0", "1", "2", "3", "4", "5", "6", "7", "8", "9">>

\* strconv.Atoi: an optional sign and decimal digits.
RECURSIVE Atoi(_)
Atoi(s) ==
    IF s = <<>> THEN [ok |-> FALSE, value |-> 0]
    ELSE IF s[1] = "-"
    THEN LET m == Atoi(Tail(s))
         IN  [ok |-> m.ok /\ Tail(s)[1] # "-", value |-> 0 - m.value]
    ELSE IF \E i \in 1..Len(s) : \A d \in 1..Len(Digits) : Digits[d] # s[i]
    THEN [ok |-> FALSE, value |-> 0]
    ELSE [ok |-> TRUE,
          value |-> (IF Len(s) = 1 THEN 0
                     ELSE 10 * Atoi(SubSeq(s, 1, Len(s) - 1)).value)
                    + (CHOOSE d \in 0..9 : Digits[d + 1] = s[Len(s)])]

\* time.ParseDuration for whole seconds: "0" alone, or a signed number
\* followed by the unit s; a number without a unit is an error. The value
\* is in seconds.
ParseDuration(s) ==
    IF s = <<"0">> THEN [ok |-> TRUE, value |-> 0]
    ELSE IF Len(s) < 2 \/ s[Len(s)] # "s" THEN [ok |-> FALSE, value |-> 0]
    ELSE Atoi(SubSeq(s, 1, Len(s) - 1))

\* A getEnvInt that keeps the zero Atoi returns with its error.
getEnvIntNoFallback(env, key, defaultValue) ==
    IF key \notin DOMAIN env \/ env[key] = <<>> THEN defaultValue
    ELSE Atoi(env[key]).value

\* getEnvInt and getEnvDuration: the default when the variable is unset or
\* empty, and the default again when its value does not parse.
getEnvInt(env, key, defaultValue) ==
    IF key \notin DOMAIN env \/ env[key] = <<>> THEN defaultValue
    ELSE IF ~Atoi(env[key]).ok THEN defaultValue
    ELSE Atoi(env[key]).value

getEnvDuration(env, key, defaultValue) ==
    IF key \notin DOMAIN env \/ env[key] = <<>> THEN defaultValue
    ELSE IF ~ParseDuration(env[key]).ok THEN defaultValue
    ELSE ParseDuration(env[key]).value

\* Validate without its five timeout checks.
ValidatePortsOnly(cfg) ==
    /\ cfg.ProxyPort \in 1..65535
    /\ cfg.MetricsPort \in 1..65535
    /\ cfg.ProxyPort # cfg.MetricsPort

\* ProxyConfig.Validate, TRUE for a nil error: the ports and the timeouts
\* (the target host is never empty and the log level is left at its default
\* in every environment considered).
Validate(cfg) ==
    /\ cfg.ProxyPort \in 1..65535
    /\ cfg.MetricsPort \in 1..65535
    /\ cfg.ProxyPort # cfg.MetricsPort
    /\ cfg.ReadTimeout > 0
    /\ cfg.WriteTimeout > 0
    /\ cfg.IdleTimeout > 0
    /\ cfg.ReadHeaderTimeout > 0
    /\ cfg.TargetDialTimeout > 0

\* Load: the scalar settings read with their defaults (durations in
\* seconds), then the header rules, then Validate.
Load(env) ==
    LET scalars == [ProxyPort |-> getEnvInt(env, "PROXY_PORT", 9090),
                    MetricsPort |-> getEnvInt(env, "METRICS_PORT", 9091),
                    ReadTimeout |-> getEnvDuration(env, "READ_TIMEOUT", 15),
                    WriteTimeout |-> getEnvDuration(env, "WRITE_TIMEOUT", 15),
                    IdleTimeout |-> getEnvDuration(env, "IDLE_TIMEOUT", 60),
                    ReadHeaderTimeout |-> getEnvDuration(env, "READ_HEADER_TIMEOUT", 5),
                    TargetDialTimeout |-> getEnvDuration(env, "TARGET_DIAL_TIMEOUT", 5)]
        parsed == IF env.HEADER_RULES # <<>> THEN parseHeaderRules(env.HEADER_RULES)
                  ELSE IF env.HEADERS_TO_PROPAGATE # <<>>
                  THEN parseHeaders(env.HEADERS_TO_PROPAGATE)
                  ELSE [err |-> TRUE]
        rules == IF env.HEADER_RULES # <<>> THEN parsed.rules
                 ELSE [i \in 1..Len(parsed.headers) |-> LegacyRule(parsed.headers[i])]
    IN  IF parsed.err THEN [err |-> TRUE]
        ELSE IF Len(rules) = 0 THEN [err |-> TRUE]
        ELSE IF ~Validate(scalars) THEN [err |-> TRUE]
        ELSE [err |-> FALSE,
              cfg |-> [HeaderRules |-> rules,
                       HeadersToPropagate |->
                           IF env.HEADER_RULES # <<>> THEN PropagatedNames(rules, 1)
                           ELSE parsed.headers,
                       ProxyPort |-> scalars.ProxyPort,
                       MetricsPort |-> scalars.MetricsPort,
                       ReadTimeout |-> scalars.ReadTimeout,
                       WriteTimeout |-> scalars.WriteTimeout,
                       IdleTimeout |-> scalars.IdleTimeout,
                       ReadHeaderTimeout |-> scalars.ReadHeaderTimeout,
                       TargetDialTimeout |-> scalars.TargetDialTimeout]]

(***************************************************************************)
(* internal/handler: the transport.                                        *)
(***************************************************************************)
\* ctx.Value(ContextKeyHeaders): nil when the context holds no header map,
\* else the map.
NoHeaders == [nil |-> TRUE, headers |-> EmptyHeader]

WithHeaders(headerMap) == [nil |-> FALSE, headers |-> headerMap]

NewHeaderPropagatingTransport(headers) == [headers |-> headers]

GetHeadersFromContext(c) == c

\* The loop of RoundTrip over headerMap: a name is set when Get returns "".
InjectHeaders(header, headerMap) ==
    [n \in DOMAIN header \cup {CanonicalHeaderKey(k) : k \in
            {k \in DOMAIN headerMap : Get(header, k) = ""}} |->
        IF \E k \in DOMAIN headerMap : CanonicalHeaderKey(k) = n /\ Get(header, k) = ""
        THEN headerMap[CHOOSE k \in DOMAIN headerMap :
                            CanonicalHeaderKey(k) = n /\ Get(header, k) = ""]
        ELSE header[n]]

\* A transport that keeps the header map of the request it sends in a field
\* and injects what the field held when the request's own context has none
\* for a name.
LeakyRoundTrip(t, header, c) ==
    LET own == c.headers
        kept == IF "last" \in DOMAIN t THEN t.last ELSE EmptyHeader
    IN  [t |-> [headers |-> t.headers, last |-> own],
         header |-> InjectHeaders(InjectHeaders(header, own), kept)]

\* A transport that sets every value of the header map, whatever the request
\* carries.
OverwritingRoundTrip(t, header, c) ==
    [t |-> t,
     header |-> [n \in DOMAIN header \cup {CanonicalHeaderKey(k) : k \in DOMAIN c.headers} |->
                    IF \E k \in DOMAIN c.headers : CanonicalHeaderKey(k) = n
                    THEN c.headers[CHOOSE k \in DOMAIN c.headers : CanonicalHeaderKey(k) = n]
                    ELSE header[n]]]

\* A transport that hands the request on as it got it.
PlainRoundTrip(t, header, c) == [t |-> t, header |-> header]

\* HeaderPropagatingTransport.RoundTrip: the transport's fields after the
\* call and the header handed to the base transport.
RoundTrip(t, header, c) ==
    LET headerMap == GetHeadersFromContext(c)
    IN  [t |-> t,
         header |-> IF ~headerMap.nil THEN InjectHeaders(header, headerMap.headers)
                    ELSE header]

\* A generators map in which the first rule of a name keeps its generator.
RECURSIVE NewGeneratorsFirstWins(_, _, _)
NewGeneratorsFirstWins(rules, i, generators) ==
    IF i > Len(rules) THEN generators
    ELSE NewGeneratorsFirstWins(rules, i + 1,
            IF rules[i].Generate /\ CanonicalHeaderKey(rules[i].Name) \notin DOMAIN generators
            THEN MapPut(generators, CanonicalHeaderKey(rules[i].Name), rules[i].GeneratorType)
            ELSE generators)

(***************************************************************************)
(* internal/handler: the proxy handler.                                    *)
(***************************************************************************)
\* The generators map NewProxyHandler builds: canonical rule name -> generator
\* type, for the rules with Generate; a later rule of the same name replaces
\* an earlier one.
RECURSIVE NewGenerators(_, _, _)
NewGenerators(rules, i, generators) ==
    IF i > Len(rules) THEN generators
    ELSE NewGenerators(rules, i + 1,
            IF rules[i].Generate
            THEN MapPut(generators, CanonicalHeaderKey(rules[i].Name), rules[i].GeneratorType)
            ELSE generators)

NewProxyHandler(cfg) ==
    [headers |-> cfg.HeadersToPropagate,
     rules |-> cfg.HeaderRules,
     generators |-> NewGenerators(cfg.HeaderRules, 1, EmptyHeader)]

\* A pass that records the generated value in the header map but leaves the
\* request header as it was.
ExtractStepNoSet(h, i, path, method, value, acc) ==
    LET rule == h.rules[i] IN
    IF ~MatchesRequest(rule, path, method) THEN acc
    ELSE
    LET canonicalName == CanonicalHeaderKey(TrimSpace(rule.Name))
        found == Get(acc.header, canonicalName)
        generate == found = "" /\ rule.Generate /\ canonicalName \in DOMAIN h.generators
        v == IF generate THEN value ELSE found
    IN  [header |-> acc.header,
         headerMap |-> IF v # "" /\ rule.Propagate
                       THEN MapPut(acc.headerMap, canonicalName, v)
                       ELSE acc.headerMap,
         generated |-> IF generate
                       THEN Append(acc.generated,
                                   [name |-> canonicalName, value |-> v,
                                    type |-> h.generators[canonicalName]])
                       ELSE acc.generated,
         matched |-> acc.matched \cup {i}]

\* A pass that generates for every rule with generate, whatever the request
\* carries.
ExtractStepAlwaysGenerate(h, i, path, method, value, acc) ==
    LET rule == h.rules[i] IN
    IF ~MatchesRequest(rule, path, method) THEN acc
    ELSE
    LET canonicalName == CanonicalHeaderKey(TrimSpace(rule.Name))
        found == Get(acc.header, canonicalName)
        generate == rule.Generate /\ canonicalName \in DOMAIN h.generators
        v == IF generate THEN value ELSE found
    IN  [header |-> IF generate THEN Set(acc.header, canonicalName, v) ELSE acc.header,
         headerMap |-> IF v # "" /\ rule.Propagate
                       THEN MapPut(acc.headerMap, canonicalName, v)
                       ELSE acc.headerMap,
         generated |-> IF generate
                       THEN Append(acc.generated,
                                   [name |-> canonicalName, value |-> v,
                                    type |-> h.generators[canonicalName]])
                       ELSE acc.generated,
         matched |-> acc.matched \cup {i}]

\* One pass of the loop of extractHeaders, for rule i.  acc is the loop's
\* state: the request header, the header map, the Generate() calls made and
\* the rules that matched.  value is what Generate() returns if it is called.
\* A pass that records whatever value it has, the empty one included.
ExtractStepRecordEmpty(h, i, path, method, value, acc) ==
    LET rule == h.rules[i] IN
    IF ~MatchesRequest(rule, path, method) THEN acc
    ELSE
    LET canonicalName == CanonicalHeaderKey(TrimSpace(rule.Name))
        found == Get(acc.header, canonicalName)
        generate == found = "" /\ rule.Generate /\ canonicalName \in DOMAIN h.generators
        v == IF generate THEN value ELSE found
    IN  [header |-> IF generate THEN Set(acc.header, canonicalName, v) ELSE acc.header,
         headerMap |-> IF rule.Propagate
                       THEN MapPut(acc.headerMap, canonicalName, v)
                       ELSE acc.headerMap,
         generated |-> IF generate
                       THEN Append(acc.generated,
                                   [name |-> canonicalName, value |-> v,
                                    type |-> h.generators[canonicalName]])
                       ELSE acc.generated,
         matched |-> acc.matched \cup {i}]

ExtractStep(h, i, path, method, value, acc) ==
    LET rule == h.rules[i] IN
    IF ~MatchesRequest(rule, path, method) THEN acc
    ELSE
    LET canonicalName == CanonicalHeaderKey(TrimSpace(rule.Name))
        found == Get(acc.header, canonicalName)
        generate == found = "" /\ rule.Generate /\ canonicalName \in DOMAIN h.generators
        v == IF generate THEN value ELSE found
    IN  [header |-> IF generate THEN Set(acc.header, canonicalName, v) ELSE acc.header,
         headerMap |-> IF v # "" /\ rule.Propagate
                       THEN MapPut(acc.headerMap, canonicalName, v)
                       ELSE acc.headerMap,
         generated |-> IF generate
                       THEN Append(acc.generated,
                                   [name |-> canonicalName, value |-> v,
                                    type |-> h.generators[canonicalName]])
                       ELSE acc.generated,
         matched |-> acc.matched \cup {i}]

RECURSIVE ExtractLoop(_, _, _, _, _, _)
ExtractLoop(h, i, path, method, values, acc) ==
    IF i > Len(h.rules) THEN acc
    ELSE ExtractLoop(h, i + 1, path, method, values,
                     ExtractStep(h, i, path, method, values[i], acc))

\* extractHeaders(r): values[i] is the value Generate() returns when rule i
\* calls it.
extractHeaders(h, r, values) ==
    ExtractLoop(h, 1, r.Path, r.Method, values,
                [header |-> r.Header, headerMap |-> EmptyHeader,
                 generated |-> <<>>, matched |-> {}])

\* httputil.ReverseProxy: outreq is a clone of the request; the headers the
\* request's Connection header lists are hop-by-hop and deleted from it.
RECURSIVE RemoveHopByHop(_, _)
RemoveHopByHop(header, tokens) ==
    IF tokens = {} THEN header
    ELSE LET sf == CHOOSE x \in tokens : TRUE
         IN  RemoveHopByHop(Del(header, sf), tokens \ {sf})

(***************************************************************************)
(* The requests, environments and values the model draws from.             *)
(***************************************************************************)
Conns == 1..MaxConns

\* Header names as a client or an operator spells them, and their canonical forms.
NameR == <<"x", "-", "r">>

NameT == <<"X", "-", "t">>

KeyR == <<"X", "-", "R">>

KeyT == <<"X", "-", "T">>

MethodGET == <<"G", "E", "T">>

MethodPOST == <<"P", "O", "S", "T">>

MethodPUT == <<"P", "U", "T">>

PathA == <<"/", "a">>

PathHA == <<"/", "h", "/", "a">>

\* The compiled pattern ^/a.
RegexA == [nil |-> FALSE, caret |-> TRUE, lit |-> <<"/", "a">>]

\* The compiled pattern /a.
RegexSubA == [nil |-> FALSE, caret |-> FALSE, lit |-> <<"/", "a">>]

\* What a generator's Generate() may return.
GenValues == {"g1", "g2"}

\* The headers with a value from valuesR under X-R or none, and one from
\* valuesT under X-T or none.
Headers(valuesR, valuesT) ==
    {[n \in {KeyR} |-> v] : v \in valuesR} \cup {[n \in {KeyT} |-> v] : v \in valuesT}
    \cup {[n \in {KeyR, KeyT} |-> IF n = KeyR THEN p[1] ELSE p[2]] : p \in valuesR \X valuesT}
    \cup {EmptyHeader}

Requests(methods, paths, headers, connections) ==
    [Method : methods, Path : paths, Header : headers, Connection : connections]

NoRequest == [Method |-> <<>>, Path |-> <<>>, Header |-> EmptyHeader, Connection |-> {}]

SmallRequests ==
    Requests({MethodGET}, {PathA}, Headers({}, {"a", "b"}), {{}, {NameT}})

RichRequests ==
    Requests({MethodGET, MethodPOST, <<"p", "u", "t">>}, {PathA, PathHA},
             Headers({"", "a"}, {"b"}), {{}, {NameT}})

\* HEADER_RULES entries as json.Unmarshal yields them: a rule that leaves
\* "propagate" out has Propagate false, one that leaves "pathRegex" out has no
\* pattern.
RawSmallR ==
    [Name |-> NameR, Generate |-> TRUE, GeneratorType |-> "", Propagate |-> FALSE,
     PathRegex |-> NoRegex, Methods |-> <<>>]

RawSmallT ==
    [Name |-> NameT, Generate |-> FALSE, GeneratorType |-> "", Propagate |-> TRUE,
     PathRegex |-> NoRegex, Methods |-> <<>>]

MethodsPostPut == <<<<"p", "o", "s", "t">>, MethodPUT>>

RawRules ==
    {r \in [Name : {NameR, NameT}, Generate : BOOLEAN, GeneratorType : {"", "ulid"},
            Propagate : BOOLEAN, PathRegex : {NoRegex, RegexA, RegexSubA},
            Methods : {<<>>, MethodsPostPut}] :
        /\ r.Propagate = (r.Methods = <<>>)
        /\ r.PathRegex = RegexSubA => (r.Name = NameT /\ ~r.Generate /\ r.Methods = <<>>)
        /\ r.GeneratorType = "ulid" => (r.Generate /\ r.Name = NameT)
        /\ (r.Name = NameR /\ r.Generate) => r.PathRegex = NoRegex
        /\ (r.Name = NameR /\ ~r.Generate) => r.Methods = <<>>
        /\ (r.Name = NameT /\ r.Generate) => (r.Methods = <<>> /\ r.PathRegex # NoRegex)}

RECURSIVE SeqsUpTo(_, _)
SeqsUpTo(S, n) ==
    IF n = 0 THEN {<<>>}
    ELSE LET shorter == SeqsUpTo(S, n - 1)
         IN  shorter \cup {Append(q, x) : q \in {q \in shorter : Len(q) = n - 1}, x \in S}

RichEnvs ==
    {[HEADER_RULES |-> rs, HEADERS_TO_PROPAGATE |-> <<>>] : rs \in SeqsUpTo(RawRules, MaxRules)}
    \cup {[HEADER_RULES |-> <<>>, HEADERS_TO_PROPAGATE |-> <<NameR, <<" ">> \o NameT, <<" ">>>>]}

SmallEnvs == {[HEADER_RULES |-> <<RawSmallR, RawSmallT>>, HEADERS_TO_PROPAGATE |-> <<>>]}

\* The header maps a caller of the transport may have put in a request's context.
ContextValues ==
    {WithHeaders(m) : m \in Headers({"a", "b"}, {"a", "b"})} \cup {NoHeaders}

(***************************************************************************)
(* The proxy process: main loads the configuration and builds the handler, *)
(* whose reverse proxy uses one HeaderPropagatingTransport.                *)
(***************************************************************************)
NoPod == [Annotations |-> EmptyHeader, Containers |-> <<>>]

IdleProxy ==
    /\ pc = [c \in Conns |-> "idle"]
    /\ inbound = [c \in Conns |-> NoRequest]
    /\ req = [c \in Conns |-> EmptyHeader]
    /\ ctx = [c \in Conns |-> NoHeaders]
    /\ genLog = [c \in Conns |-> <<>>]
    /\ matched = [c \in Conns |-> {}]
    /\ directed = [c \in Conns |-> EmptyHeader]
    /\ sent = [c \in Conns |-> EmptyHeader]
    /\ lastDone = [conn |-> 0, header |-> EmptyHeader]
    /\ active = [gauge |-> 0, deferred |-> [c \in Conns |-> FALSE]]

\* The pods of the controller's cluster.
PodNames == {"p1", "p2"}

\* No reconcile has returned since the cluster last changed. A result holds
\* what Reconcile returned and the Ready condition of its in-memory copy of
\* the policy.
NoResult == [outcome |-> "none", err |-> FALSE, RequeueAfter |-> 0,
             local |-> [status |-> "", reason |-> ""]]

\* A cluster without pods and without a policy, nothing queued.
NoCluster ==
    [pods |-> [p \in PodNames |->
                  [exists |-> FALSE, ns |-> "default", app |-> TRUE, sidecar |-> TRUE,
                   phase |-> "Pending"]],
     policy |-> [exists |-> FALSE, generation |-> 0, selector |-> "nil",
                 status |-> [observedGeneration |-> 0, appliedToPods |-> 0,
                             ready |-> [status |-> "", reason |-> ""]]],
     queued |-> FALSE, timer |-> 0, result |-> NoResult]

\* No admission response yet.
NoReview == [allowed |-> FALSE, warnings |-> <<>>, err |-> ""]

NoAdmission ==
    /\ pod = NoPod
    /\ podIn = NoPod
    /\ admissions = 0
    /\ injections = 0
    /\ review = NoReview
    /\ cluster = NoCluster

\* A response: the status written (0 while none is) and the body as the
\* sequence of its newline-terminated lines.
NoResponse == [status |-> 0, body |-> <<>>]

\* A request target: origin-form (a path on this service), absolute-form
\* (http://host/path, as a client sends to a forward proxy) or
\* authority-form (host:port, of CONNECT).
NoURI == [form |-> "origin", host |-> ""]

NoLimiter == [enabled |-> FALSE, burst |-> 0, tokens |-> 0]

NoRateLimit == [RateLimitEnabled |-> FALSE, RateLimitBurst |-> 0]

\* main has loaded a configuration and opened the listener; the environment
\* and the scalar settings are not looked at.
NoStartup ==
    [phase |-> "listening",
     env |-> [HEADER_RULES |-> <<>>, HEADERS_TO_PROPAGATE |-> <<>>],
     cfg |-> [HeaderRules |-> <<>>, HeadersToPropagate |-> <<>>, ProxyPort |-> 0,
              MetricsPort |-> 0, ReadTimeout |-> 0, WriteTimeout |-> 0,
              IdleTimeout |-> 0, ReadHeaderTimeout |-> 0, TargetDialTimeout |-> 0],
     srv |-> [Addr |-> 0, ReadTimeout |-> 0, WriteTimeout |-> 0, IdleTimeout |-> 0,
              ReadHeaderTimeout |-> 0]]

\* The limiter was asked about no request yet.
NoWindow == [calls |-> 0, passed |-> 0, refilled |-> FALSE]

\* The process has started and serves no request.
IdleServer ==
    /\ startup = NoStartup
    /\ window = NoWindow
    /\ running = TRUE
    /\ upstream = TRUE
    /\ failures = 0
    /\ admitted = [c \in Conns |-> ""]
    /\ uri = [c \in Conns |-> NoURI]
    /\ resp = [c \in Conns |-> NoResponse]
    /\ dest = [c \in Conns |-> ""]

\* A process whose configuration is not looked at beyond the header rules.
PlainServer ==
    /\ IdleServer
    /\ rulesJSON = <<>>
    /\ cfgRate = NoRateLimit
    /\ limiter = NoLimiter

Started(envs) ==
    \E env \in envs :
        /\ ~Load(env).err
        /\ handler = NewProxyHandler(Load(env).cfg)
        /\ transport = NewHeaderPropagatingTransport(Load(env).cfg.HeadersToPropagate)

\* What the generators may return to one request: values[i] is what
\* Generate() returns if rule i calls it.
GeneratedValues(rules) ==
    {values \in [1..Len(rules) -> GenValues] :
        \A i \in 1..Len(rules) : ~rules[i].Generate => values[i] = "g1"}

\* metrics.ActiveConnections.Inc() followed by defer ...Dec(), on the
\* goroutine of connection c.
ActiveInc(a, c) == [a EXCEPT !.gauge = @ + 1, !.deferred[c] = TRUE]

\* A return that drops the deferred call.
ActiveDecForgotten(a, c) == [a EXCEPT !.deferred[c] = FALSE]

\* The goroutine of connection c leaves ServeHTTP, by return or by panic:
\* the deferred Dec runs if one is pending.
ActiveDec(a, c) ==
    IF a.deferred[c] THEN [a EXCEPT !.gauge = @ - 1, !.deferred[c] = FALSE] ELSE a

\* ProxyHandler.ServeHTTP up to r.WithContext: the server hands the handler a
\* request read from connection c, extractHeaders runs on it and the header
\* map is attached to the request's context.
Extract(c, r) ==
    /\ \E values \in GeneratedValues(handler.rules) :
         LET e == extractHeaders(handler, r, values)
         IN  /\ inbound' = [inbound EXCEPT ![c] = r]
             /\ req' = [req EXCEPT ![c] = e.header]
             /\ ctx' = [ctx EXCEPT ![c] = WithHeaders(e.headerMap)]
             /\ genLog' = [genLog EXCEPT ![c] = e.generated]
             /\ matched' = [matched EXCEPT ![c] = e.matched]
    /\ pc' = [pc EXCEPT ![c] = "extracted"]
    /\ active' = ActiveInc(active, c)
    /\ UNCHANGED <<handler, transport, directed, sent, lastDone>>

ServeHTTP(c, requests) ==
    /\ pc[c] = "idle"
    /\ \E r \in requests : Extract(c, r)
    /\ UNCHANGED podVars
    /\ UNCHANGED serverVars

\* h.reverseProxy.ServeHTTP: the request is cloned with its context, stripped
\* of hop-by-hop headers and sent through the transport.
Send(c) ==
    /\ LET outreq == RemoveHopByHop(req[c], inbound[c].Connection)
           rt == RoundTrip(transport, outreq, ctx[c])
       IN  /\ directed' = [directed EXCEPT ![c] = outreq]
           /\ sent' = [sent EXCEPT ![c] = rt.header]
           /\ transport' = rt.t
    /\ UNCHANGED <<handler, inbound, req, ctx, genLog, matched, lastDone>>

Forward(c) ==
    /\ pc[c] = "extracted"
    /\ Send(c)
    /\ pc' = [pc EXCEPT ![c] = "sent"]
    /\ UNCHANGED active
    /\ UNCHANGED podVars
    /\ UNCHANGED serverVars

\* A caller hands the transport a request of its own making.
TransportCall(c) ==
    /\ pc[c] = "idle"
    /\ \E header \in Headers({"", "a"}, {"", "b"}), value \in ContextValues :
         LET rt == RoundTrip(transport, header, value)
         IN  /\ directed' = [directed EXCEPT ![c] = header]
             /\ ctx' = [ctx EXCEPT ![c] = value]
             /\ sent' = [sent EXCEPT ![c] = rt.header]
             /\ transport' = rt.t
    /\ pc' = [pc EXCEPT ![c] = "sent"]
    /\ UNCHANGED <<handler, active, inbound, req, genLog, matched, lastDone>>
    /\ UNCHANGED podVars
    /\ UNCHANGED serverVars

\* ServeHTTP returns: the request and its context are gone; the connection
\* is kept alive for the next request.
Return(c) ==
    /\ pc' = [pc EXCEPT ![c] = "idle"]
    /\ inbound' = [inbound EXCEPT ![c] = NoRequest]
    /\ req' = [req EXCEPT ![c] = EmptyHeader]
    /\ ctx' = [ctx EXCEPT ![c] = NoHeaders]
    /\ genLog' = [genLog EXCEPT ![c] = <<>>]
    /\ matched' = [matched EXCEPT ![c] = {}]
    /\ directed' = [directed EXCEPT ![c] = EmptyHeader]
    /\ sent' = [sent EXCEPT ![c] = EmptyHeader]
    /\ UNCHANGED <<handler, transport>>

Finish(c, history) ==
    /\ pc[c] = "sent"
    /\ lastDone' = IF history THEN [conn |-> c, header |-> inbound[c].Header] ELSE lastDone
    /\ active' = ActiveDec(active, c)
    /\ Return(c)
    /\ UNCHANGED podVars
    /\ UNCHANGED serverVars

\* Requests served concurrently on MaxConns kept-alive connections.
Init == Started(SmallEnvs) /\ IdleProxy /\ NoAdmission /\ PlainServer

Next ==
    \E c \in Conns :
        \/ ServeHTTP(c, SmallRequests)
        \/ Forward(c)
        \/ Finish(c, TRUE)

Spec == Init /\ [][Next]_vars

\* One connection, every rule list of up to MaxRules rules.
InitRules == Started(RichEnvs) /\ IdleProxy /\ NoAdmission /\ PlainServer

NextRules ==
    \/ ServeHTTP(1, RichRequests)
    \/ Forward(1)
    \/ Finish(1, FALSE)

SpecRules == InitRules /\ [][NextRules]_vars

\* The transport called directly.
\* The callers of the transport: two connections are enough to call it
\* while another call is in progress.
TransportConns == {c \in Conns : c <= 2}

NextTransport ==
    \E c \in TransportConns :
        \/ TransportCall(c)
        \/ Finish(c, FALSE)

SpecTransport == Init /\ [][NextTransport]_vars

(***************************************************************************)
(* The pod admission webhook (PodCustomDefaulter).  A pod is its           *)
(* annotations (key -> character sequence) and its containers, each a      *)
(* name, an image and a list of environment variables; ports, resources,   *)
(* security context and probes of the sidecar are left out.                *)
(***************************************************************************)
AnnotationEnabled == "ctxforge.io/enabled"

AnnotationHeaders == "ctxforge.io/headers"

AnnotationHeaderRules == "ctxforge.io/header-rules"

AnnotationTargetPort == "ctxforge.io/target-port"

AnnotationInjected == "ctxforge.io/injected"

ProxyContainerName == "ctxforge-proxy"

DefaultTargetPort == <<"8", "0", "8", "0">>

ProxyPort == 9090

StrTrue == <<"t", "r", "u", "e">>

StrLocalhost == <<"l", "o", "c", "a", "l", "h", "o", "s", "t">>

\* fmt.Sprintf("%d", n) for n >= 0.
RECURSIVE Itoa(_)
Itoa(n) == IF n < 10 THEN <<Digits[n + 1]>> ELSE Itoa(n \div 10) \o <<Digits[(n % 10) + 1]>>

\* strings.Split(s, ","), scanning from character i with the part begun so far.
RECURSIVE SplitFrom(_, _, _)
SplitFrom(s, i, part) ==
    IF i > Len(s) THEN <<part>>
    ELSE IF s[i] = "," THEN <<part>> \o SplitFrom(s, i + 1, <<>>)
    ELSE SplitFrom(s, i + 1, Append(part, s[i]))

Split(s) == SplitFrom(s, 1, <<>>)

\* strings.Join(parts, ",").
RECURSIVE Join(_)
Join(parts) ==
    IF parts = <<>> THEN <<>>
    ELSE IF Len(parts) = 1 THEN parts[1]
    ELSE parts[1] \o <<",">> \o Join(Tail(parts))

shouldInject(p) ==
    AnnotationEnabled \in DOMAIN p.Annotations /\ p.Annotations[AnnotationEnabled] = StrTrue

\* PodCustomDefaulter.extractHeaders.
podExtractHeaders(p) ==
    IF AnnotationHeaders \notin DOMAIN p.Annotations \/ p.Annotations[AnnotationHeaders] = <<>>
    THEN <<>>
    ELSE LET parts == Split(p.Annotations[AnnotationHeaders])
         IN  SelectSeq([i \in 1..Len(parts) |-> TrimSpace(parts[i])], LAMBDA h : h # <<>>)

\* A check that looks at the containers' images instead of their names and
\* not at the marker.
isAlreadyInjectedByImage(p) ==
    \E i \in 1..Len(p.Containers) : p.Containers[i].Image = ProxyContainerName

isAlreadyInjected(p) ==
    \/ AnnotationInjected \in DOMAIN p.Annotations
    \/ \E i \in 1..Len(p.Containers) : p.Containers[i].Name = ProxyContainerName

EnvVar(name, value) == [Name |-> name, Value |-> value]

injectSidecar(p, headers, image) ==
    LET targetPort ==
            IF AnnotationTargetPort \in DOMAIN p.Annotations
               /\ p.Annotations[AnnotationTargetPort] # <<>>
            THEN p.Annotations[AnnotationTargetPort]
            ELSE DefaultTargetPort
        sidecar ==
            [Name |-> ProxyContainerName,
             Image |-> image,
             Env |-> <<EnvVar("HEADERS_TO_PROPAGATE", Join(headers)),
                       EnvVar("TARGET_HOST", StrLocalhost \o <<":">> \o targetPort),
                       EnvVar("PROXY_PORT", Itoa(ProxyPort)),
                       EnvVar("LOG_LEVEL", <<"i", "n", "f", "o">>),
                       EnvVar("LOG_FORMAT", <<"j", "s", "o", "n">>)>>]
    IN  [p EXCEPT !.Containers = Append(@, sidecar)]

ProxyURL == <<"h", "t", "t", "p", ":", "/", "/">> \o StrLocalhost \o <<":">> \o Itoa(ProxyPort)

\* A pass that gives the variables to every container, the sidecar included.
modifyAllContainers(p) ==
    LET proxyEnvVars ==
            <<EnvVar("HTTP_PROXY", ProxyURL),
              EnvVar("HTTPS_PROXY", ProxyURL),
              EnvVar("NO_PROXY", StrLocalhost \o <<",", "1", "2", "7", ".", "0", ".", "0", ".", "1">>)>>
    IN  [p EXCEPT !.Containers = [i \in 1..Len(@) |-> [@[i] EXCEPT !.Env = @ \o proxyEnvVars]]]

modifyAppContainers(p) ==
    LET proxyEnvVars ==
            <<EnvVar("HTTP_PROXY", ProxyURL),
              EnvVar("HTTPS_PROXY", ProxyURL),
              EnvVar("NO_PROXY", StrLocalhost \o <<",", "1", "2", "7", ".", "0", ".", "0", ".", "1">>)>>
    IN  [p EXCEPT !.Containers =
            [i \in 1..Len(@) |->
                IF @[i].Name = ProxyContainerName THEN @[i]
                ELSE [@[i] EXCEPT !.Env = @ \o proxyEnvVars]]]

markAsInjected(p) ==
    [p EXCEPT !.Annotations =
        [k \in DOMAIN @ \cup {AnnotationInjected} |->
            IF k = AnnotationInjected THEN StrTrue ELSE @[k]]]

\* PodCustomDefaulter.Default: the pod it leaves behind.
Default(p, image) ==
    IF ~shouldInject(p) THEN p
    ELSE LET headers == podExtractHeaders(p)
         IN  IF Len(headers) = 0 THEN p
             ELSE IF isAlreadyInjected(p) THEN p
             ELSE markAsInjected(modifyAppContainers(injectSidecar(p, headers, image)))

\* PodCustomValidator.ValidateCreate: the warnings and the error returned; a
\* nil error admits the pod.
ValidateCreate(p) ==
    IF /\ AnnotationEnabled \in DOMAIN p.Annotations
       /\ p.Annotations[AnnotationEnabled] = StrTrue
       /\ \/ AnnotationHeaders \notin DOMAIN p.Annotations
          \/ TrimSpace(p.Annotations[AnnotationHeaders]) = <<>>
    THEN [allowed |-> TRUE,
          warnings |-> <<"ctxforge.io/enabled is set but no headers specified in ctxforge.io/headers">>,
          err |-> ""]
    ELSE [allowed |-> TRUE, warnings |-> <<>>, err |-> ""]

DefaultProxyImage == "ghcr.io/bgruszka/contextforge-proxy:latest"

\* The pods submitted for admission.
AnnotationKeys ==
    {AnnotationEnabled, AnnotationHeaders, AnnotationHeaderRules,
     AnnotationTargetPort, AnnotationInjected}

AnnotationChoices ==
    [k \in AnnotationKeys |->
        CASE k = AnnotationEnabled -> {StrTrue, <<"T", "r", "u", "e">>}
          [] k = AnnotationHeaders ->
                {<<>>, NameR, NameR \o <<",", " ">> \o NameT, <<" ", ",">>,
                 <<"x", " ", "r">>}
          [] k = AnnotationHeaderRules -> {<<"[", "{", "}", "]">>, <<"[", "{">>}
          [] k = AnnotationTargetPort ->
                {<<"3", "0", "0", "0">>, <<"9", "0", "9", "0">>, <<"a", "b", "c">>}
          [] k = AnnotationInjected -> {StrTrue}]

AnnotationSets ==
    UNION {[keys -> UNION {AnnotationChoices[k] : k \in keys}] :
              keys \in SUBSET DOMAIN AnnotationChoices}

PodAnnotations ==
    {a \in AnnotationSets : \A k \in DOMAIN a : a[k] \in AnnotationChoices[k]}

AppContainer(name) == [Name |-> name, Image |-> "app:latest", Env |-> <<>>]

\* An application container that sets HTTP_PROXY itself.
ProxiedAppContainer(name) ==
    [Name |-> name, Image |-> "app:latest",
     Env |-> <<[Name |-> "HTTP_PROXY", Value |-> <<"c", "o", "r", "p", ":", "3", "1", "2", "8">>]>>]

PodContainers ==
    {<<AppContainer("app")>>,
     <<ProxiedAppContainer("app")>>,
     <<AppContainer("app"), AppContainer("worker")>>,
     <<AppContainer("app"), AppContainer(ProxyContainerName)>>}

Pods == [Annotations : PodAnnotations, Containers : PodContainers]

InitAdmission ==
    /\ handler = NewProxyHandler(Load(CHOOSE env \in SmallEnvs : TRUE).cfg)
    /\ transport = NewHeaderPropagatingTransport(handler.headers)
    /\ IdleProxy
    /\ PlainServer
    /\ pod \in Pods
    /\ podIn = pod
    /\ admissions = 0
    /\ injections = 0
    /\ review = NoReview
    /\ cluster = NoCluster

\* The API server creates the pod: it calls the mutating webhook on it and
\* then the validating webhook on what the mutating webhook left.
Admit ==
    /\ admissions < MaxAdmissions
    /\ podIn' = pod
    /\ pod' = Default(pod, DefaultProxyImage)
    /\ admissions' = admissions + 1
    /\ injections' = IF pod' # pod THEN injections + 1 ELSE injections
    /\ review' = ValidateCreate(pod')
    /\ UNCHANGED cluster
    /\ UNCHANGED proxyVars
    /\ UNCHANGED serverVars

NextAdmission == Admit

SpecAdmission == InitAdmission /\ [][NextAdmission]_vars

(***************************************************************************)
(* The server (NewServer): one http.Server whose ServeMux routes /healthz  *)
(* and /ready to their handlers and everything under / to the proxy        *)
(* handler.  Each connection is served by its own goroutine.               *)
(***************************************************************************)
MaxFailures == 2

MaxBurst == 2

MaxCalls == 3

MaxGeneration == 2

\* The connections of the server model.
ServerConns == {c \in Conns : c <= 2}

\* getEnv("TARGET_HOST", "localhost:8080").
TargetHost == "localhost:8080"

HealthzPath == <<"/", "h", "e", "a", "l", "t", "h", "z">>

ReadyPath == <<"/", "r", "e", "a", "d", "y">>

MethodCONNECT == <<"C", "O", "N", "N", "E", "C", "T">>

\* http.ServeMux with the patterns /healthz, /ready and /: the exact paths
\* go to their handlers, every other path that starts with / to the proxy
\* handler; a request without a path (CONNECT host:port) matches no pattern.
Route(path) ==
    IF path = HealthzPath THEN "healthz"
    ELSE IF path = ReadyPath THEN "ready"
    ELSE IF Len(path) > 0 /\ path[1] = "/" THEN "proxy"
    ELSE "notfound"

\* healthHandler: 200 and the JSON line with status "healthy".
healthHandler == [status |-> 200, body |-> <<"healthy">>]

\* readyHandler: 200 "ready" when the target accepts a TCP connection, 503
\* "not_ready" when it does not.
readyHandler(targetReachable) ==
    [status |-> IF targetReachable THEN 200 ELSE 503,
     body |-> <<IF targetReachable THEN "ready" ELSE "not_ready">>]

\* http.NotFound, the mux's answer when no pattern matches.
NotFoundHandler == [status |-> 404, body |-> <<"404 page not found">>]

\* http.Error(w, error, code): the status and the error as one line.
HttpError(error, code) == [status |-> code, body |-> <<error>>]

\* An error handler that stops the process (log.Fatal for log.Error).
FatalErrorHandler(w) == [resp |-> w, running |-> FALSE]

\* An error handler that reports an internal error.
InternalErrorHandler(w) == [resp |-> [w EXCEPT !.status = 500], running |-> TRUE]

\* proxy.ErrorHandler: logs the error and writes the status 502, no body.
ErrorHandler(w) == [resp |-> [w EXCEPT !.status = 502], running |-> TRUE]

\* A server that lets a handler's panic end the process.
CrashOnPanic(w) == [resp |-> w, running |-> FALSE, closed |-> TRUE]

\* net/http's conn.serve: a panic of the handler is recovered and logged and
\* the connection is closed; what the handler had written stays written,
\* nothing is added.
RecoverPanic(w) == [resp |-> w, running |-> TRUE, closed |-> TRUE]

\* The director of httputil.NewSingleHostReverseProxy(targetURL): the
\* outbound request's URL gets the scheme and host of the target.
Director(u) == TargetHost

\* What the target application answers.
UpstreamResponse == [status |-> 200, body |-> <<"ok">>]

\* An Allow whose taking of the token is lost.
LimiterAllowLostUpdate(lim) ==
    IF lim.tokens > 0 THEN [ok |-> TRUE, lim |-> lim]
    ELSE [ok |-> FALSE, lim |-> lim]

\* rate.Limiter.Allow with whole tokens: a token is taken if there is one.
LimiterAllow(lim) ==
    IF lim.tokens > 0 THEN [ok |-> TRUE, lim |-> [lim EXCEPT !.tokens = @ - 1]]
    ELSE [ok |-> FALSE, lim |-> lim]

\* NewRateLimiter(enabled, rps, burst): the bucket starts full.
NewRateLimiter(enabled, burst) == [enabled |-> enabled, burst |-> burst, tokens |-> burst]

\* A middleware that writes the error and goes on to the wrapped handler.
MiddlewareNoReturn(rl) ==
    IF ~rl.enabled THEN [next |-> TRUE, rl |-> rl, resp |-> NoResponse, verdict |-> "disabled"]
    ELSE LET a == LimiterAllow(rl)
         IN  IF ~a.ok
             THEN [next |-> TRUE, rl |-> a.lim,
                   resp |-> HttpError("Too Many Requests", 429), verdict |-> "rejected"]
             ELSE [next |-> TRUE, rl |-> a.lim, resp |-> NoResponse, verdict |-> "allowed"]

\* RateLimiter.Middleware: whether next.ServeHTTP is called, the limiter
\* afterwards and what the middleware itself wrote.
Middleware(rl) ==
    IF ~rl.enabled THEN [next |-> TRUE, rl |-> rl, resp |-> NoResponse, verdict |-> "disabled"]
    ELSE LET a == LimiterAllow(rl)
         IN  IF ~a.ok
             THEN [next |-> FALSE, rl |-> a.lim,
                   resp |-> HttpError("Too Many Requests", 429), verdict |-> "rejected"]
             ELSE [next |-> TRUE, rl |-> a.lim, resp |-> NoResponse, verdict |-> "allowed"]

\* The request targets clients send.
OriginURI == [form |-> "origin", host |-> ""]

AbsoluteURI == [form |-> "absolute", host |-> "service-b"]

AuthorityURI == [form |-> "authority", host |-> "example.com:443"]

\* The requests that reach the proxy handler: a path on this service, or an
\* absolute URL as an application behind HTTP_PROXY sends.
ProxiedRequests ==
    {[r |-> r, u |-> u] :
        r \in Requests({MethodGET}, {PathA}, Headers({}, {"a"}), {{}}),
        u \in {OriginURI, AbsoluteURI}}

ProbeRequest(path) ==
    [Method |-> MethodGET, Path |-> path, Header |-> EmptyHeader, Connection |-> {}]

\* CONNECT example.com:443: the request has no path.
ConnectRequest ==
    [Method |-> MethodCONNECT, Path |-> <<>>, Header |-> EmptyHeader, Connection |-> {}]


\* The requests that do not: the probes and a CONNECT.
DirectRequests ==
    {[r |-> ProbeRequest(HealthzPath), u |-> OriginURI],
     [r |-> ProbeRequest(ReadyPath), u |-> OriginURI],
     [r |-> ConnectRequest, u |-> AuthorityURI]}

ServerRequests == ProxiedRequests \cup DirectRequests

\* The process as main starts it: the rate-limit settings are loaded into
\* the configuration; NewServer is given the configuration and the proxy
\* handler and builds no limiter.
InitServer ==
    /\ Started(SmallEnvs)
    /\ IdleProxy
    /\ NoAdmission
    /\ IdleServer
    /\ rulesJSON = <<>>
    /\ cfgRate \in [RateLimitEnabled : BOOLEAN, RateLimitBurst : {1}]
    /\ limiter = NoLimiter

\* The mux serves a request itself: healthHandler, readyHandler or NotFound.
MuxDirect(c) ==
    /\ running
    /\ pc[c] = "idle"
    /\ \E q \in ServerRequests :
         /\ Route(q.r.Path) # "proxy"
         /\ inbound' = [inbound EXCEPT ![c] = q.r]
         /\ uri' = [uri EXCEPT ![c] = q.u]
         /\ resp' = [resp EXCEPT ![c] =
                CASE Route(q.r.Path) = "healthz" -> healthHandler
                  [] Route(q.r.Path) = "ready" -> readyHandler(upstream)
                  [] OTHER -> NotFoundHandler]
    /\ pc' = [pc EXCEPT ![c] = "done"]
    /\ UNCHANGED <<handler, transport, active, req, ctx, genLog, matched, directed, sent, lastDone>>
    /\ UNCHANGED podVars
    /\ UNCHANGED <<startup, window, rulesJSON, running, upstream, failures, cfgRate, limiter, admitted, dest>>

\* The mux hands the request to the proxy handler: ServeHTTP up to
\* r.WithContext.
MuxProxy(c) ==
    /\ running
    /\ pc[c] = "idle"
    /\ \E q \in ServerRequests :
         /\ Route(q.r.Path) = "proxy"
         /\ Extract(c, q.r)
         /\ uri' = [uri EXCEPT ![c] = q.u]
    /\ UNCHANGED podVars
    /\ UNCHANGED <<startup, window, rulesJSON, running, upstream, failures, cfgRate, limiter, admitted,
                   resp, dest>>

\* Generate() panics inside extractHeaders (uuid.New panics when the random
\* source fails); the server's goroutine for the connection recovers.
ExtractPanic(c) ==
    /\ running
    /\ pc[c] = "idle"
    /\ \E q \in ServerRequests, values \in GeneratedValues(handler.rules) :
         /\ Route(q.r.Path) = "proxy"
         /\ extractHeaders(handler, q.r, values).generated # <<>>
         /\ inbound' = [inbound EXCEPT ![c] = q.r]
         /\ uri' = [uri EXCEPT ![c] = q.u]
    /\ LET rec == RecoverPanic(resp[c])
       IN  /\ running' = rec.running
           /\ resp' = [resp EXCEPT ![c] = rec.resp]
    /\ pc' = [pc EXCEPT ![c] = "aborted"]
    /\ active' = ActiveDec(ActiveInc(active, c), c)
    /\ UNCHANGED <<handler, transport, req, ctx, genLog, matched, directed, sent, lastDone>>
    /\ UNCHANGED podVars
    /\ UNCHANGED <<startup, window, rulesJSON, upstream, failures, cfgRate, limiter, admitted, dest>>

\* h.reverseProxy.ServeHTTP: the director rewrites the URL, the transport
\* sends the request; the upstream's answer is written to the client, or the
\* round trip fails and the error handler runs.
ProxyForward(c) ==
    /\ running
    /\ pc[c] = "extracted"
    /\ Send(c)
    /\ dest' = [dest EXCEPT ![c] = Director(uri[c])]
    /\ IF upstream
       THEN /\ resp' = [resp EXCEPT ![c] = UpstreamResponse]
            /\ pc' = [pc EXCEPT ![c] = "sent"]
            /\ UNCHANGED <<active, running, failures>>
       ELSE LET e == ErrorHandler(resp[c])
            IN  /\ resp' = [resp EXCEPT ![c] = e.resp]
                /\ running' = e.running
                /\ failures' = IF failures < MaxFailures THEN failures + 1 ELSE failures
                /\ pc' = [pc EXCEPT ![c] = "failed"]
                /\ active' = ActiveDec(active, c)
    /\ UNCHANGED podVars
    /\ UNCHANGED <<startup, window, rulesJSON, upstream, cfgRate, limiter, admitted, uri>>

\* The upstream's body has been copied to the client; ServeHTTP returns.
Copy(c) ==
    /\ running
    /\ pc[c] = "sent"
    /\ pc' = [pc EXCEPT ![c] = "done"]
    /\ active' = ActiveDec(active, c)
    /\ UNCHANGED <<handler, transport, inbound, req, ctx, genLog, matched, directed,
                   sent, lastDone>>
    /\ UNCHANGED podVars
    /\ UNCHANGED serverVars

\* Copying the upstream's body fails after the status was written: the
\* reverse proxy panics with http.ErrAbortHandler and the server recovers.
CopyPanic(c) ==
    /\ running
    /\ pc[c] = "sent"
    /\ LET rec == RecoverPanic(resp[c])
       IN  /\ running' = rec.running
           /\ resp' = [resp EXCEPT ![c] = rec.resp]
    /\ pc' = [pc EXCEPT ![c] = "aborted"]
    /\ active' = ActiveDec(active, c)
    /\ UNCHANGED <<handler, transport, inbound, req, ctx, genLog, matched, directed,
                   sent, lastDone>>
    /\ UNCHANGED podVars
    /\ UNCHANGED <<startup, window, rulesJSON, upstream, failures, cfgRate, limiter, admitted, uri, dest>>

\* The client has its answer (or a closed connection) and the connection
\* slot is free for the next request.
Release(c) ==
    /\ running
    /\ pc[c] \in {"done", "failed", "aborted"}
    /\ Return(c)
    /\ admitted' = [admitted EXCEPT ![c] = ""]
    /\ uri' = [uri EXCEPT ![c] = NoURI]
    /\ resp' = [resp EXCEPT ![c] = NoResponse]
    /\ dest' = [dest EXCEPT ![c] = ""]
    /\ UNCHANGED <<active, lastDone>>
    /\ UNCHANGED podVars
    /\ UNCHANGED <<startup, window, rulesJSON, running, upstream, failures, cfgRate, limiter>>

\* The target application goes down or comes back.
UpstreamChange ==
    /\ running
    /\ upstream' = ~upstream
    /\ UNCHANGED proxyVars
    /\ UNCHANGED podVars
    /\ UNCHANGED <<startup, window, rulesJSON, running, failures, cfgRate, limiter, admitted, uri, resp, dest>>

NextServer ==
    \/ \E c \in ServerConns :
        \/ MuxDirect(c)
        \/ MuxProxy(c)
        \/ ExtractPanic(c)
        \/ ProxyForward(c)
        \/ Copy(c)
        \/ CopyPanic(c)
        \/ Release(c)
    \/ UpstreamChange

\* A handler's goroutine that is about to forward does forward.
SpecServer ==
    /\ InitServer
    /\ [][NextServer]_vars
    /\ \A c \in ServerConns : WF_vars(ProxyForward(c))

\* The proxy handler wrapped in the rate limiter's middleware, as
\* rl.Middleware(handler) builds it.
InitRateLimit ==
    /\ Started(SmallEnvs)
    /\ IdleProxy
    /\ NoAdmission
    /\ IdleServer
    /\ rulesJSON = <<>>
    /\ \E enabled \in BOOLEAN, burst \in 0..MaxBurst :
         /\ cfgRate = [RateLimitEnabled |-> enabled, RateLimitBurst |-> burst]
         /\ limiter = NewRateLimiter(enabled, burst)

LimitedServe(c) ==
    /\ running
    /\ pc[c] = "idle"
    /\ LET m == Middleware(limiter)
       IN  /\ limiter' = m.rl
           /\ admitted' = [admitted EXCEPT ![c] = m.verdict]
           /\ window' = IF window.calls < MaxCalls
                         THEN [window EXCEPT !.calls = @ + 1,
                                             !.passed = IF m.next THEN @ + 1 ELSE @]
                         ELSE window
           /\ resp' = [resp EXCEPT ![c] = m.resp]
           /\ \E q \in ProxiedRequests :
                /\ uri' = [uri EXCEPT ![c] = q.u]
                /\ IF m.next
                   THEN Extract(c, q.r)
                   ELSE /\ inbound' = [inbound EXCEPT ![c] = q.r]
                        /\ pc' = [pc EXCEPT ![c] = "done"]
                        /\ UNCHANGED <<handler, transport, active, req, ctx, genLog,
                                       matched, directed, sent, lastDone>>
    /\ UNCHANGED podVars
    /\ UNCHANGED <<startup, rulesJSON, running, upstream, failures, cfgRate, dest>>

\* Time passes and the bucket gains a token.
Refill ==
    /\ running
    /\ limiter.enabled
    /\ limiter.tokens < limiter.burst
    /\ limiter' = [limiter EXCEPT !.tokens = @ + 1]
    /\ window' = [window EXCEPT !.refilled = TRUE]
    /\ UNCHANGED proxyVars
    /\ UNCHANGED podVars
    /\ UNCHANGED <<startup, rulesJSON, running, upstream, failures, cfgRate, admitted, uri, resp, dest>>

NextRateLimit ==
    \/ \E c \in ServerConns :
        \/ LimitedServe(c)
        \/ ProxyForward(c)
        \/ Copy(c)
        \/ Release(c)
    \/ Refill

SpecRateLimit == InitRateLimit /\ [][NextRateLimit]_vars

\* HEADER_RULES as the operator writes it: a rule's "propagate" is left
\* out, true or false.
JSONRules == [name : {NameR, NameT}, generate : BOOLEAN,
              propagate : {"omitted", "true", "false"}]

JSONDocuments == SeqsUpTo(JSONRules, MaxRules) \ {<<>>}

\* json.Unmarshal into a HeaderRule: a bool that is left out is false.
Unmarshal(j) ==
    [Name |-> j.name, Generate |-> j.generate, GeneratorType |-> "",
     Propagate |-> (j.propagate = "true"), PathRegex |-> NoRegex, Methods |-> <<>>]

\* The proxy started from a HEADER_RULES document, the document kept.
InitPropagate ==
    /\ \E doc \in JSONDocuments :
         /\ rulesJSON = doc
         /\ Started({[HEADER_RULES |-> [i \in 1..Len(doc) |-> Unmarshal(doc[i])],
                      HEADERS_TO_PROPAGATE |-> <<>>]})
    /\ IdleProxy
    /\ NoAdmission
    /\ IdleServer
    /\ cfgRate = NoRateLimit
    /\ limiter = NoLimiter

NextPropagate ==
    \/ ServeHTTP(1, SmallRequests)
    \/ Forward(1)
    \/ Finish(1, FALSE)

SpecPropagate == InitPropagate /\ [][NextPropagate]_vars

(***************************************************************************)
(* cmd/proxy: main loads the configuration, exits when Load fails, and     *)
(* otherwise builds the handler and opens the listener.                    *)
(***************************************************************************)
\* The environments main may be started in; an empty value is an unset
\* variable.
ConfigEnvs ==
    [HEADER_RULES : {<<>>, <<RawSmallR>>},
     HEADERS_TO_PROPAGATE : {<<>>, <<NameR>>, <<<<" ">>, <<" ">>>>, <<<<"x", " ", "r">>>>},
     PROXY_PORT : {<<>>, <<"9", "0", "9", "1">>, <<"a", "b", "c">>, <<"0">>},
     METRICS_PORT : {<<>>, <<"9", "0", "9", "0">>},
     READ_TIMEOUT : {<<>>, <<"0">>, <<"-", "5", "s">>, <<"3", "0", "s">>, <<"a", "b", "c">>},
     WRITE_TIMEOUT : {<<>>, <<"0">>},
     IDLE_TIMEOUT : {<<>>, <<"0">>},
     READ_HEADER_TIMEOUT : {<<>>, <<"-", "5", "s">>},
     TARGET_DIAL_TIMEOUT : {<<>>, <<"0">>}]

\* The process before main has run: no configuration, no listener.
InitConfig ==
    /\ \E env \in ConfigEnvs :
         startup = [NoStartup EXCEPT !.phase = "init", !.env = env]
    /\ handler = NewProxyHandler(NoStartup.cfg)
    /\ transport = NewHeaderPropagatingTransport(<<>>)
    /\ IdleProxy
    /\ NoAdmission
    /\ running = FALSE
    /\ window = NoWindow
    /\ upstream = TRUE
    /\ failures = 0
    /\ admitted = [c \in Conns |-> ""]
    /\ uri = [c \in Conns |-> NoURI]
    /\ resp = [c \in Conns |-> NoResponse]
    /\ dest = [c \in Conns |-> ""]
    /\ rulesJSON = <<>>
    /\ cfgRate = NoRateLimit
    /\ limiter = NoLimiter

\* NewServer: the http.Server it builds, the port of Addr and the timeouts
\* in seconds.
NewServer(cfg) ==
    [Addr |-> cfg.ProxyPort, ReadTimeout |-> 15, WriteTimeout |-> 15, IdleTimeout |-> 60,
     ReadHeaderTimeout |-> 5]

\* main: config.Load, log.Fatal on its error; else NewProxyHandler,
\* NewServer and srv.Start.
Start ==
    /\ startup.phase = "init"
    /\ LET loaded == Load(startup.env)
       IN  IF loaded.err
           THEN /\ startup' = [startup EXCEPT !.phase = "exited"]
                /\ UNCHANGED <<handler, transport, running>>
           ELSE /\ startup' = [startup EXCEPT !.phase = "listening", !.cfg = loaded.cfg,
                                               !.srv = NewServer(loaded.cfg)]
                /\ handler' = NewProxyHandler(loaded.cfg)
                /\ transport' = NewHeaderPropagatingTransport(loaded.cfg.HeadersToPropagate)
                /\ running' = TRUE
    /\ UNCHANGED <<active, pc, inbound, req, ctx, genLog, matched, directed, sent, lastDone>>
    /\ UNCHANGED podVars
    /\ UNCHANGED <<window, rulesJSON, upstream, failures, cfgRate, limiter, admitted, uri, resp, dest>>

NextConfig ==
    \/ Start
    \/ MuxDirect(1)
    \/ MuxProxy(1)
    \/ ProxyForward(1)
    \/ Copy(1)
    \/ Release(1)

SpecConfig == InitConfig /\ [][NextConfig]_vars

(***************************************************************************)
(* internal/controller: the HeaderPropagationPolicy reconciler, the pods   *)
(* of the cluster and the work queue controller-runtime keeps for the one  *)
(* policy. A pod has a namespace, carries the label app=test-app or not,   *)
(* has a container named ctxforge-proxy or not, and a phase. The policy's  *)
(* PodSelector is nil, app=test-app, or one LabelSelectorAsSelector        *)
(* rejects.                                                                *)
(***************************************************************************)
RequeueAfterNoMatches == 30

RequeueAfterPendingPods == 10

\* setReadyCondition: the Ready condition put on the policy object given.
setReadyConditionTrue(status, reason) == [status |-> "True", reason |-> reason]

setReadyCondition(status, reason) == [status |-> status, reason |-> reason]

\* A List that looks in every namespace.
ListAllNamespaces(cl) ==
    {p \in PodNames : /\ cl.pods[p].exists
                      /\ (cl.policy.selector = "nil" \/ cl.pods[p].app)}

\* r.List with InNamespace(policy.Namespace) and the selector built from
\* PodSelector: labels.Everything() for nil.
ListPods(cl) ==
    {p \in PodNames : /\ cl.pods[p].exists
                      /\ cl.pods[p].ns = "default"
                      /\ (cl.policy.selector = "nil" \/ cl.pods[p].app)}

\* The reconcile of the earlier controller: a re-check every 30 seconds,
\* whatever was found.
ReconcileAlwaysRequeue(cl, listErr, updateErr) ==
    LET withSidecar == {p \in ListPods(cl) : cl.pods[p].sidecar}
        matchedPods == Cardinality({p \in withSidecar : cl.pods[p].phase = "Running"})
        ready == IF matchedPods > 0 THEN setReadyCondition("True", "PolicyApplied")
                 ELSE setReadyCondition("False", "NoMatchingPods")
    IN  IF ~cl.policy.exists
        THEN [cl EXCEPT !.result = [NoResult EXCEPT !.outcome = "notfound"]]
        ELSE IF cl.policy.selector = "invalid"
        THEN [cl EXCEPT !.result = [outcome |-> "selector", err |-> TRUE, RequeueAfter |-> 0,
                                    local |-> setReadyCondition("False", "InvalidSelector")]]
        ELSE IF listErr
        THEN [cl EXCEPT !.result = [outcome |-> "list", err |-> TRUE, RequeueAfter |-> 0,
                                    local |-> setReadyCondition("False", "ListPodsFailed")]]
        ELSE IF updateErr
        THEN [cl EXCEPT !.result = [outcome |-> "update", err |-> TRUE, RequeueAfter |-> 0,
                                    local |-> ready]]
        ELSE [cl EXCEPT !.policy.status = [observedGeneration |-> cl.policy.generation,
                                           appliedToPods |-> matchedPods,
                                           ready |-> ready],
                        !.result = [outcome |-> "ok", err |-> FALSE,
                                    RequeueAfter |-> RequeueAfterNoMatches,
                                    local |-> ready]]

\* A reconcile that asks for no re-check while pods are Pending.
ReconcileNoPendingRequeue(cl, listErr, updateErr) ==
    LET withSidecar == {p \in ListPods(cl) : cl.pods[p].sidecar}
        matchedPods == Cardinality({p \in withSidecar : cl.pods[p].phase = "Running"})
        totalSelectorMatches == Cardinality(withSidecar)
        ready == IF matchedPods > 0 THEN setReadyCondition("True", "PolicyApplied")
                 ELSE setReadyCondition("False", "NoMatchingPods")
    IN  IF ~cl.policy.exists
        THEN [cl EXCEPT !.result = [NoResult EXCEPT !.outcome = "notfound"]]
        ELSE IF cl.policy.selector = "invalid"
        THEN [cl EXCEPT !.result = [outcome |-> "selector", err |-> TRUE, RequeueAfter |-> 0,
                                    local |-> setReadyCondition("False", "InvalidSelector")]]
        ELSE IF listErr
        THEN [cl EXCEPT !.result = [outcome |-> "list", err |-> TRUE, RequeueAfter |-> 0,
                                    local |-> setReadyCondition("False", "ListPodsFailed")]]
        ELSE IF updateErr
        THEN [cl EXCEPT !.result = [outcome |-> "update", err |-> TRUE, RequeueAfter |-> 0,
                                    local |-> ready]]
        ELSE [cl EXCEPT !.policy.status = [observedGeneration |-> cl.policy.generation,
                                           appliedToPods |-> matchedPods,
                                           ready |-> ready],
                        !.result = [outcome |-> "ok", err |-> FALSE,
                                    RequeueAfter |->
                                        IF matchedPods = 0 /\ totalSelectorMatches = 0
                                        THEN RequeueAfterNoMatches
                                        ELSE 0,
                                    local |-> ready]]

\* A reconcile that also deletes the injected pods that have failed.
ReconcileEvicting(cl, listErr, updateErr) ==
    LET withSidecar == {p \in ListPods(cl) : cl.pods[p].sidecar}
        matchedPods == Cardinality({p \in withSidecar : cl.pods[p].phase = "Running"})
        pendingPods == Cardinality({p \in withSidecar : cl.pods[p].phase = "Pending"})
        totalSelectorMatches == Cardinality(withSidecar)
        ready == IF matchedPods > 0 THEN setReadyCondition("True", "PolicyApplied")
                 ELSE setReadyCondition("False", "NoMatchingPods")
    IN  IF ~cl.policy.exists
        THEN [cl EXCEPT !.result = [NoResult EXCEPT !.outcome = "notfound"]]
        ELSE IF cl.policy.selector = "invalid"
        THEN [cl EXCEPT !.result = [outcome |-> "selector", err |-> TRUE, RequeueAfter |-> 0,
                                    local |-> setReadyCondition("False", "InvalidSelector")]]
        ELSE IF listErr
        THEN [cl EXCEPT !.result = [outcome |-> "list", err |-> TRUE, RequeueAfter |-> 0,
                                    local |-> setReadyCondition("False", "ListPodsFailed")]]
        ELSE IF updateErr
        THEN [cl EXCEPT !.result = [outcome |-> "update", err |-> TRUE, RequeueAfter |-> 0,
                                    local |-> ready]]
        ELSE [cl EXCEPT !.pods = [p \in PodNames |->
                                     IF p \in withSidecar /\ cl.pods[p].phase = "Failed"
                                     THEN [cl.pods[p] EXCEPT !.exists = FALSE]
                                     ELSE cl.pods[p]],
                        !.policy.status = [observedGeneration |-> cl.policy.generation,
                                           appliedToPods |-> matchedPods,
                                           ready |-> ready],
                        !.result = [outcome |-> "ok", err |-> FALSE,
                                    RequeueAfter |->
                                        IF pendingPods > 0 THEN RequeueAfterPendingPods
                                        ELSE IF matchedPods = 0 /\ totalSelectorMatches = 0
                                        THEN RequeueAfterNoMatches
                                        ELSE 0,
                                    local |-> ready]]

\* Reconcile: the cluster afterwards, with what Reconcile returned. listErr
\* and updateErr say whether r.List and r.Status().Update fail. The Ready
\* condition set before an early return is set on the in-memory policy only.
Reconcile(cl, listErr, updateErr) ==
    LET withSidecar == {p \in ListPods(cl) : cl.pods[p].sidecar}
        matchedPods == Cardinality({p \in withSidecar : cl.pods[p].phase = "Running"})
        pendingPods == Cardinality({p \in withSidecar : cl.pods[p].phase = "Pending"})
        totalSelectorMatches == Cardinality(withSidecar)
        ready == IF matchedPods > 0 THEN setReadyCondition("True", "PolicyApplied")
                 ELSE setReadyCondition("False", "NoMatchingPods")
    IN  IF ~cl.policy.exists
        THEN [cl EXCEPT !.result = [NoResult EXCEPT !.outcome = "notfound"]]
        ELSE IF cl.policy.selector = "invalid"
        THEN [cl EXCEPT !.result = [outcome |-> "selector", err |-> TRUE, RequeueAfter |-> 0,
                                    local |-> setReadyCondition("False", "InvalidSelector")]]
        ELSE IF listErr
        THEN [cl EXCEPT !.result = [outcome |-> "list", err |-> TRUE, RequeueAfter |-> 0,
                                    local |-> setReadyCondition("False", "ListPodsFailed")]]
        ELSE IF updateErr
        THEN [cl EXCEPT !.result = [outcome |-> "update", err |-> TRUE, RequeueAfter |-> 0,
                                    local |-> ready]]
        ELSE [cl EXCEPT !.policy.status = [observedGeneration |-> cl.policy.generation,
                                           appliedToPods |-> matchedPods,
                                           ready |-> ready],
                        !.result = [outcome |-> "ok", err |-> FALSE,
                                    RequeueAfter |->
                                        IF pendingPods > 0 THEN RequeueAfterPendingPods
                                        ELSE IF matchedPods = 0 /\ totalSelectorMatches = 0
                                        THEN RequeueAfterNoMatches
                                        ELSE 0,
                                    local |-> ready]]

\* The cluster as the controller starts: the policy exists and is queued,
\* no pod does. Pod p1 will be in the policy's namespace, labelled and
\* injected; pod p2 differs from it in at most one respect.
InitController ==
    /\ Started(SmallEnvs)
    /\ IdleProxy
    /\ PlainServer
    /\ pod = NoPod
    /\ podIn = NoPod
    /\ admissions = 0
    /\ injections = 0
    /\ review = NoReview
    /\ \E ns \in {"default", "other"}, app \in BOOLEAN, sidecar \in BOOLEAN,
          selector \in {"nil", "app", "invalid"} :
         /\ ~(ns = "other" /\ ~app)
         /\ ~(ns = "other" /\ ~sidecar)
         /\ ~(~app /\ ~sidecar)
         /\ cluster = [NoCluster EXCEPT
                          !.pods["p2"] = [@ EXCEPT !.ns = ns, !.app = app, !.sidecar = sidecar],
                          !.policy = [@ EXCEPT !.exists = TRUE, !.generation = 1,
                                               !.selector = selector],
                          !.queued = TRUE]

\* A worker takes the policy from the queue and calls Reconcile; an error
\* puts the policy back, a RequeueAfter starts a timer (the earlier of two
\* timers is kept).
Process(listErr, updateErr) ==
    /\ cluster.queued
    /\ LET r == Reconcile(cluster, listErr, updateErr)
       IN  cluster' = [r EXCEPT !.queued = r.result.err,
                                !.timer = IF r.result.err \/ r.result.RequeueAfter = 0 THEN @
                                          ELSE IF @ = 0 \/ r.result.RequeueAfter < @
                                          THEN r.result.RequeueAfter
                                          ELSE @]
    /\ UNCHANGED <<pod, podIn, admissions, injections, review>>
    /\ UNCHANGED proxyVars
    /\ UNCHANGED serverVars

\* The RequeueAfter interval has passed.
TimerFires ==
    /\ cluster.timer > 0
    /\ cluster' = [cluster EXCEPT !.queued = TRUE, !.timer = 0]
    /\ UNCHANGED <<pod, podIn, admissions, injections, review>>
    /\ UNCHANGED proxyVars
    /\ UNCHANGED serverVars

\* A pod is created (Pending), changes phase or is deleted. The watch on
\* pods calls findPoliciesForPod, which queues the policy when the pod is in
\* its namespace and its selector matches the pod; the event of a phase
\* change may not be delivered.
PodChange(p) ==
    \E phase \in {"Pending", "Running", "Failed", "Gone"}, delivered \in BOOLEAN :
        LET old == cluster.pods[p]
            new == [old EXCEPT !.exists = (phase # "Gone"),
                               !.phase = IF phase = "Gone" THEN "Pending" ELSE phase]
        IN  /\ \/ ~old.exists /\ phase = "Pending"
               \/ old.exists /\ old.phase = "Pending" /\ phase \in {"Running", "Gone"}
               \/ old.exists /\ old.phase = "Running" /\ phase \in {"Failed", "Gone"}
               \/ old.exists /\ old.phase = "Failed" /\ phase = "Gone"
            /\ ~delivered => (old.exists /\ phase # "Gone")
            /\ cluster' = [cluster EXCEPT
                              !.pods[p] = new,
                              !.queued = \/ @
                                         \/ /\ delivered
                                            /\ cluster.policy.exists
                                            /\ new.ns = "default"
                                            /\ \/ cluster.policy.selector = "nil"
                                               \/ cluster.policy.selector = "app" /\ new.app,
                              !.result = NoResult]
            /\ UNCHANGED <<pod, podIn, admissions, injections, review>>
            /\ UNCHANGED proxyVars
            /\ UNCHANGED serverVars

\* The policy's spec is edited (a new generation) or the policy is deleted;
\* the controller watches its own resource.
PolicyChange ==
    /\ cluster.policy.exists
    /\ \/ /\ cluster.policy.generation < MaxGeneration
          /\ \E selector \in {"nil", "app", "invalid"} :
               cluster' = [cluster EXCEPT !.policy.generation = @ + 1,
                                          !.policy.selector = selector,
                                          !.queued = TRUE,
                                          !.result = NoResult]
       \/ cluster' = [cluster EXCEPT !.policy.exists = FALSE,
                                     !.queued = TRUE,
                                     !.result = NoResult]
    /\ UNCHANGED <<pod, podIn, admissions, injections, review>>
    /\ UNCHANGED proxyVars
    /\ UNCHANGED serverVars

NextController ==
    \/ \E listErr \in BOOLEAN, updateErr \in BOOLEAN : Process(listErr, updateErr)
    \/ TimerFires
    \/ \E p \in PodNames : PodChange(p)
    \/ PolicyChange

SpecController == InitController /\ [][NextController]_vars

\* The API server answers in the end and timers expire.
LiveController ==
    /\ InitController
    /\ [][NextController]_vars
    /\ WF_vars(Process(FALSE, FALSE))
    /\ WF_vars(TimerFires)

(***************************************************************************)
(* Properties.                                                             *)
(***************************************************************************)
InFlight(c) == pc[c] \in {"extracted", "sent"}

\* The canonical names the rules of the handler are about.
RuleNames == {CanonicalHeaderKey(TrimSpace(handler.rules[i].Name)) : i \in 1..Len(handler.rules)}

\* The values request c brought itself or had generated for it under name n.
OwnValues(c, n) ==
    (IF n \in DOMAIN inbound[c].Header THEN {inbound[c].Header[n]} ELSE {})
    \cup {genLog[c][k].value : k \in {k \in 1..Len(genLog[c]) : genLog[c][k].name = n}}

\* C1: on a kept-alive connection the upstream sees for a request exactly
\* the propagated headers of that request: every header of the outbound
\* request holds a value the request carried or had generated, the header
\* map of its context is attached, and a header the request left out is
\* absent even though an earlier request on the connection carried it.
C1_KeepAliveIsolation ==
    \A c \in Conns :
        pc[c] = "sent" =>
            /\ \A n \in DOMAIN sent[c] : sent[c][n] \in OwnValues(c, n)
            /\ \A n \in DOMAIN ctx[c].headers : Get(sent[c], n) = ctx[c].headers[n]
            /\ \A n \in RuleNames : OwnValues(c, n) = {} => n \notin DOMAIN sent[c]

\* A request that leaves X-T out has been sent on the connection whose
\* previous request carried X-T.
C1_Witness ==
    \E c \in Conns :
        /\ pc[c] = "sent"
        /\ lastDone.conn = c
        /\ KeyT \in DOMAIN lastDone.header
        /\ KeyT \notin DOMAIN inbound[c].Header
        /\ KeyR \in DOMAIN sent[c]

\* C2: whatever the interleaving of the handlers, a header the transport
\* added to a request's outbound request comes from the header map in that
\* request's own context; a value of another request in flight is never
\* attached.
C2_ConcurrentIsolation ==
    \A c \in Conns :
        pc[c] = "sent" =>
            \A n \in DOMAIN sent[c] :
                \/ /\ n \in DOMAIN directed[c]
                   /\ sent[c][n] = directed[c][n]
                \/ /\ n \in DOMAIN ctx[c].headers
                   /\ sent[c][n] = ctx[c].headers[n]

\* Two requests are in flight at once, one has been sent without X-T while
\* the other holds an X-T value in its context.
C2_Witness ==
    \E c, d \in Conns :
        /\ c # d
        /\ pc[c] = "sent"
        /\ InFlight(d)
        /\ KeyT \in DOMAIN ctx[d].headers
        /\ KeyT \notin DOMAIN ctx[c].headers
        /\ ctx[c].headers[KeyR] # ctx[d].headers[KeyR]

\* C3: the header map lives only in the context of its request: the shared
\* transport's fields are those NewHeaderPropagatingTransport set, whatever
\* requests went through it, and a connection with no request being served
\* holds no header map.
C3_ScopeNotStored ==
    /\ transport = NewHeaderPropagatingTransport(handler.headers)
    /\ \A c \in Conns : pc[c] = "idle" => ctx[c] = NoHeaders /\ sent[c] = EmptyHeader

\* Between calls: a request that carried X-T went through the transport and
\* finished, and no request is being served.
C3_Witness ==
    /\ lastDone.conn # 0
    /\ KeyT \in DOMAIN lastDone.header
    /\ \A c \in Conns : pc[c] = "idle"

RuleApplies(r, path, method) ==
    /\ r.CompiledPathRegex.nil \/ MatchString(r.CompiledPathRegex, path)
    /\ \/ r.Methods = <<>>
       \/ \E j \in 1..Len(r.Methods) : ToUpper(r.Methods[j]) = ToUpper(method)

RuleKey(i) == CanonicalHeaderKey(TrimSpace(handler.rules[i].Name))

AppliesTo(i, c) == RuleApplies(handler.rules[i], inbound[c].Path, inbound[c].Method)

\* C5: a header of a propagate rule that applies to the request and that
\* the inbound request carries with a non-empty value v reaches the upstream
\* with value v, unless the outbound request had set it already.
C5_Propagated ==
    \A c \in Conns :
        pc[c] = "sent" =>
            \A i \in 1..Len(handler.rules) :
                LET v == Get(inbound[c].Header, RuleKey(i))
                IN  (AppliesTo(i, c) /\ handler.rules[i].Propagate /\ v # "")
                        => \/ Get(sent[c], RuleKey(i)) = v
                           \/ Get(directed[c], RuleKey(i)) \notin {"", v}

\* The reverse proxy dropped the header (the client's Connection header
\* names it), and the transport put the request's value back.
C5_Witness ==
    \E c \in Conns :
        /\ pc[c] = "sent"
        /\ \E i \in 1..Len(handler.rules) :
             /\ AppliesTo(i, c)
             /\ handler.rules[i].Propagate
             /\ Get(inbound[c].Header, RuleKey(i)) # ""
             /\ RuleKey(i) \notin DOMAIN directed[c]
             /\ Get(sent[c], RuleKey(i)) = Get(inbound[c].Header, RuleKey(i))

\* C6: extractHeaders applies a rule to a request exactly when the rule's
\* path pattern is absent or matches the path and its methods are absent or
\* hold the request's method, compared without regard to case.
C6_RuleApplies ==
    \A c \in Conns :
        InFlight(c) =>
            \A i \in 1..Len(handler.rules) : (i \in matched[c]) <=> AppliesTo(i, c)

\* A rule matched a request whose method is spelled in another case than in
\* the rule, and another rule did not match.
C6_Witness ==
    \E c \in Conns :
        /\ InFlight(c)
        /\ \E i \in matched[c] :
             /\ handler.rules[i].Methods # <<>>
             /\ \A j \in 1..Len(handler.rules[i].Methods) :
                  handler.rules[i].Methods[j] # inbound[c].Method
        /\ \E i \in 1..Len(handler.rules) : i \notin matched[c]

\* A header some rule names, none of whose rules applies to request c.
Filtered(c, n) ==
    /\ \E i \in 1..Len(handler.rules) : RuleKey(i) = n
    /\ \A i \in 1..Len(handler.rules) : RuleKey(i) = n => ~AppliesTo(i, c)

\* C7 as claimed: a header whose rules do not apply to the request is absent
\* from what the upstream receives.
C7_AsClaimed ==
    \A c \in Conns :
        pc[c] = "sent" =>
            \A n \in RuleNames : Filtered(c, n) => n \notin DOMAIN sent[c]

\* C7 amended: a header whose rules do not apply to the request is not
\* recorded in the header map and no value is generated for it, so the
\* transport attaches nothing: the upstream receives the header only as the
\* reverse proxy passes on the inbound request's own copy (it drops the copy
\* when the request's Connection header names it).
C7_FilteredNotPropagated ==
    \A c \in Conns :
        \A n \in RuleNames :
            (InFlight(c) /\ Filtered(c, n)) =>
                /\ n \notin DOMAIN ctx[c].headers
                /\ \A k \in 1..Len(genLog[c]) : genLog[c][k].name # n
                /\ pc[c] = "sent" =>
                     Get(sent[c], n) =
                        IF n \in {CanonicalHeaderKey(t) : t \in inbound[c].Connection}
                        THEN ""
                        ELSE Get(inbound[c].Header, n)

\* A request carrying a header whose only rules do not apply has been sent,
\* and the upstream received the header as the request carried it.
C7_Witness ==
    \E c \in Conns :
        /\ pc[c] = "sent"
        /\ \E n \in RuleNames :
             /\ Filtered(c, n)
             /\ Get(inbound[c].Header, n) # ""
             /\ Get(sent[c], n) = Get(inbound[c].Header, n)

\* The Generate() calls made for request c under name n.
Generated(c, n) == {k \in 1..Len(genLog[c]) : genLog[c][k].name = n}

HeadersDeclared(p) ==
    \/ Len(podExtractHeaders(p)) > 0
    \/ /\ AnnotationHeaderRules \in DOMAIN p.Annotations
       /\ p.Annotations[AnnotationHeaderRules] # <<>>

\* C10: Default changes a pod exactly when the opt-in annotation is "true",
\* at least one header is declared (by the headers list or by the
\* header-rules annotation) and neither the injected marker nor a container
\* named ctxforge-proxy is present.
C10_MutatesIff ==
    admissions > 0 =>
        ((pod # podIn) <=>
            /\ AnnotationEnabled \in DOMAIN podIn.Annotations
            /\ podIn.Annotations[AnnotationEnabled] = StrTrue
            /\ HeadersDeclared(podIn)
            /\ AnnotationInjected \notin DOMAIN podIn.Annotations
            /\ \A i \in 1..Len(podIn.Containers) :
                 podIn.Containers[i].Name # ProxyContainerName)

\* The containers of the pod that are named like the forwarder.
Forwarders(p) == {i \in 1..Len(p.Containers) : p.Containers[i].Name = ProxyContainerName}

\* The application containers of the pod.
AppContainers(p) == {i \in 1..Len(p.Containers) : p.Containers[i].Name # ProxyContainerName}

ProxyEnvNames == {"HTTP_PROXY", "HTTPS_PROXY", "NO_PROXY"}

EnvCount(container, name) ==
    Cardinality({k \in 1..Len(container.Env) : container.Env[k].Name = name})

\* The pod carries the injected marker or a container named like the forwarder.
Injected(p) ==
    \/ AnnotationInjected \in DOMAIN p.Annotations
    \/ Forwarders(p) # {}

\* C11 as claimed: Default leaves an already-injected pod as it is, and a pod
\* it injected has, after any number of applications, one forwarder
\* container and each proxy environment variable once on every application
\* container.
C11_AsClaimed ==
    admissions >= 1 =>
        /\ Injected(podIn) => pod = podIn
        /\ injections >= 1 =>
             /\ Cardinality(Forwarders(pod)) = 1
             /\ \A i \in AppContainers(pod) : \A name \in ProxyEnvNames :
                  EnvCount(pod.Containers[i], name) = 1

\* C11 amended: Default leaves an already-injected pod as it is; over any
\* number of applications it changes the pod at most once, a pod it injected
\* has one forwarder container, and the application that injects appends
\* each proxy environment variable once to every application container,
\* next to what the container already set.
C11_Idempotent ==
    admissions >= 1 =>
        /\ injections <= 1
        /\ Injected(podIn) => pod = podIn
        /\ injections = 1 => Cardinality(Forwarders(pod)) = 1
        /\ pod # podIn =>
             \A i \in AppContainers(podIn) : \A name \in ProxyEnvNames :
                 EnvCount(pod.Containers[i], name) = EnvCount(podIn.Containers[i], name) + 1

\* Default has run again on a pod with two application containers that it
\* had injected, and left it as it was.
C11_Witness ==
    /\ admissions >= 2
    /\ injections = 1
    /\ pod = podIn
    /\ Cardinality(AppContainers(pod)) = 2
    /\ Cardinality(Forwarders(pod)) = 1

HealthAnswered(c) == pc[c] = "done" /\ inbound[c].Path = HealthzPath

\* C13: whatever number of requests failed because the upstream is
\* unreachable, the forwarder keeps running, every answer to /healthz is 200
\* whatever the upstream's state, and every request handed to the proxy
\* handler eventually has a response.
C13_StillServing ==
    /\ [](running /\ \A c \in ServerConns : HealthAnswered(c) => resp[c].status = 200)
    /\ \A c \in ServerConns : (pc[c] = "extracted") ~> (resp[c].status # 0)

C13_Witness ==
    /\ failures = MaxFailures
    /\ ~upstream
    /\ running
    /\ \E c \in ServerConns : HealthAnswered(c) /\ resp[c] = healthHandler
    /\ \E c \in ServerConns : pc[c] = "failed"

C15_ConnectEstablished ==
    \A c \in ServerConns :
        (pc[c] = "done" /\ inbound[c].Method = MethodCONNECT /\ upstream) =>
            /\ resp[c].status = 200
            /\ dest[c] = uri[c].host

\* C16: a request in absolute-form is forwarded to the host its URL names,
\* a request in origin-form to the configured upstream application.
C16_RoleByForm ==
    \A c \in ServerConns :
        dest[c] # "" =>
            dest[c] = (IF uri[c].form = "absolute" THEN uri[c].host ELSE TargetHost)

\* C17: when rate limiting is enabled, no request reaches header extraction
\* or forwarding without having been admitted by the limiter first.
C17_AdmittedFirst ==
    \A c \in ServerConns :
        (cfgRate.RateLimitEnabled /\ (pc[c] = "extracted" \/ dest[c] # "")) =>
            admitted[c] = "allowed"

\* C18: a request rejected by the enabled rate limiter receives status 429
\* with the body "Too Many Requests" (one line), and the wrapped handler is
\* not invoked for it: nothing is extracted and nothing is forwarded.
C18_RejectedGets429 ==
    \A c \in ServerConns :
        admitted[c] = "rejected" =>
            /\ limiter.enabled
            /\ resp[c].status = 429
            /\ resp[c].body = <<"Too Many Requests">>
            /\ pc[c] = "done"
            /\ ctx[c] = NoHeaders
            /\ req[c] = EmptyHeader
            /\ dest[c] = ""

C18_Witness ==
    \E c, d \in ServerConns :
        /\ limiter.burst > 0
        /\ admitted[c] = "rejected"
        /\ resp[c].status = 429
        /\ admitted[d] = "allowed"
        /\ dest[d] = TargetHost

\* C19: a rule that leaves "propagate" out is loaded with Propagate true, a
\* rule written with "propagate": false is loaded with Propagate false, and
\* the header of such a rule (no other rule naming it) is not recorded in
\* the request's header map.
C19_PropagateAsWritten ==
    \A i \in 1..Len(rulesJSON) :
        /\ handler.rules[i].Propagate = (rulesJSON[i].propagate # "false")
        /\ (/\ rulesJSON[i].propagate = "false"
            /\ \A k \in 1..Len(rulesJSON) :
                  rulesJSON[k].name = rulesJSON[i].name => rulesJSON[k].propagate = "false")
           => RuleKey(i) \notin DOMAIN ctx[1].headers

\* C20: no header is recorded in a request's header map with an empty
\* value, and no header the transport attaches to the outbound request (one
\* that differs from what the reverse proxy handed it) has an empty value.
C20_NoEmptyValues ==
    \A c \in Conns :
        /\ \A n \in DOMAIN ctx[c].headers : ctx[c].headers[n] # ""
        /\ pc[c] = "sent" =>
             \A n \in DOMAIN sent[c] :
                Get(sent[c], n) # Get(directed[c], n) => Get(sent[c], n) # ""

\* A request carried the header of an applying propagate rule with an empty
\* value; the header was left out of the header map while another header
\* was recorded and attached.
C20_Witness ==
    \E c \in Conns :
        /\ pc[c] = "sent"
        /\ \E i \in 1..Len(handler.rules) :
             /\ AppliesTo(i, c)
             /\ handler.rules[i].Propagate
             /\ RuleKey(i) \in DOMAIN inbound[c].Header
             /\ Get(inbound[c].Header, RuleKey(i)) = ""
             /\ RuleKey(i) \notin DOMAIN ctx[c].headers
        /\ \E n \in DOMAIN ctx[c].headers :
             /\ n \notin DOMAIN directed[c]
             /\ Get(sent[c], n) = ctx[c].headers[n]

\* A header name in canonical form: the first letter and every letter after
\* a hyphen is not lower case, every other letter is not upper case.
IsCanonical(k) ==
    \A i \in 1..Len(k) :
        IF i = 1 \/ k[i - 1] = "-" THEN ~IsLower(k[i]) ELSE ~IsUpper(k[i])

\* Two names that differ in the case of their letters only.
SameFold(a, b) == ToUpper(a) = ToUpper(b)

\* C21: a rule matches an inbound header whose name differs from the rule's
\* name in case only; the header map and the outbound request hold the
\* header under its canonical name, with the inbound value.
C21_CanonicalNames ==
    \A c \in Conns :
        InFlight(c) =>
            /\ \A k \in DOMAIN ctx[c].headers : IsCanonical(k)
            /\ pc[c] = "sent" => \A k \in DOMAIN sent[c] : IsCanonical(k)
            /\ \A i \in 1..Len(handler.rules), n \in DOMAIN inbound[c].Header :
                 (/\ SameFold(n, TrimSpace(handler.rules[i].Name))
                  /\ RuleApplies(handler.rules[i], inbound[c].Path, inbound[c].Method)
                  /\ inbound[c].Header[n] # "")
                    => \E k \in DOMAIN ctx[c].headers :
                         /\ SameFold(k, n)
                         /\ ctx[c].headers[k] = inbound[c].Header[n]
                         /\ pc[c] = "sent" => (k \in DOMAIN sent[c] /\ sent[c][k] = inbound[c].Header[n])

\* A rule spelled in lower case matched the request's header, the reverse
\* proxy dropped the header and the transport attached it under the
\* canonical name.
C21_Witness ==
    \E c \in Conns :
        /\ pc[c] = "sent"
        /\ \E i \in 1..Len(handler.rules) :
             /\ ~IsCanonical(TrimSpace(handler.rules[i].Name))
             /\ AppliesTo(i, c)
             /\ RuleKey(i) \in DOMAIN inbound[c].Header
             /\ inbound[c].Header[RuleKey(i)] # ""
             /\ RuleKey(i) \notin DOMAIN directed[c]
             /\ RuleKey(i) \in DOMAIN sent[c]
             /\ sent[c][RuleKey(i)] = inbound[c].Header[RuleKey(i)]

\* The literal of pattern re occurs in the path at position pos.
OccursAt(re, path, pos) ==
    /\ pos + Len(re.lit) - 1 <= Len(path)
    /\ SubSeq(path, pos, pos + Len(re.lit) - 1) = re.lit

\* C22 as claimed: a rule with a path pattern applies to a request only when
\* the pattern matches the path anchored at its start.
C22_AsClaimed ==
    \A c \in Conns :
        InFlight(c) =>
            \A i \in matched[c] :
                ~handler.rules[i].CompiledPathRegex.nil =>
                    OccursAt(handler.rules[i].CompiledPathRegex, inbound[c].Path, 1)

\* C22 amended: a rule with a path pattern applies to a request only when
\* the pattern matches somewhere in the path, at its start when the pattern
\* itself begins with ^; a rule without methods applies whenever it does.
C22_UnanchoredMatch ==
    \A c \in Conns :
        InFlight(c) =>
            \A i \in 1..Len(handler.rules) :
                LET re == handler.rules[i].CompiledPathRegex
                    found == \E pos \in 1..Len(inbound[c].Path) :
                                /\ OccursAt(re, inbound[c].Path, pos)
                                /\ re.caret => pos = 1
                IN  ~re.nil =>
                        /\ i \in matched[c] => found
                        /\ (found /\ handler.rules[i].Methods = <<>>) => i \in matched[c]

\* A rule whose pattern has no ^ matched a path that holds the pattern's
\* text in the middle only.
C22_Witness ==
    \E c \in Conns :
        /\ InFlight(c)
        /\ \E i \in matched[c] :
             /\ ~handler.rules[i].CompiledPathRegex.nil
             /\ ~handler.rules[i].CompiledPathRegex.caret
             /\ ~OccursAt(handler.rules[i].CompiledPathRegex, inbound[c].Path, 1)
             /\ RuleKey(i) \in DOMAIN ctx[c].headers

\* The orders the rules of the handler may be listed in.
RuleOrders(n) == {p \in [1..n -> 1..n] : \A i, j \in 1..n : p[i] = p[j] => i = j}

\* What extractHeaders yields for request c when the handler is built from
\* the same rules listed in order p.
Reordered(c, p) ==
    LET rules == [i \in 1..Len(handler.rules) |-> handler.rules[p[i]]]
        h == NewProxyHandler([HeadersToPropagate |-> handler.headers, HeaderRules |-> rules])
    IN  extractHeaders(h, inbound[c], [i \in 1..Len(rules) |-> "g1"])

\* The names and the (name, generator kind) pairs of a list of Generate() calls.
GeneratedNames(log) == {log[k].name : k \in 1..Len(log)}

GeneratedKinds(log) == {<<log[k].name, log[k].type>> : k \in 1..Len(log)}

\* C23 as claimed: for every order of the rule list the names recorded in
\* the header map, the names generated and the generator kind used for each
\* name are the same for a given request.
C23_AsClaimed ==
    \A c \in Conns :
        InFlight(c) =>
            \A p \in RuleOrders(Len(handler.rules)) :
                /\ DOMAIN Reordered(c, p).headerMap = DOMAIN ctx[c].headers
                /\ GeneratedNames(Reordered(c, p).generated) = GeneratedNames(genLog[c])
                /\ GeneratedKinds(Reordered(c, p).generated) = GeneratedKinds(genLog[c])

\* C23 amended: for every order of the rule list the names recorded in the
\* header map and the names generated are the same for a given request; the
\* generator kind used for a name is the kind of the last rule in the list
\* that generates that name.
C23_OrderOfNames ==
    \A c \in Conns :
        InFlight(c) =>
            /\ \A p \in RuleOrders(Len(handler.rules)) :
                 /\ DOMAIN Reordered(c, p).headerMap = DOMAIN ctx[c].headers
                 /\ GeneratedNames(Reordered(c, p).generated) = GeneratedNames(genLog[c])
            /\ \A k \in 1..Len(genLog[c]) :
                 \E i \in 1..Len(handler.rules) :
                    /\ handler.rules[i].Generate
                    /\ RuleKey(i) = genLog[c][k].name
                    /\ handler.rules[i].GeneratorType = genLog[c][k].type
                    /\ \A j \in (i + 1)..Len(handler.rules) :
                          handler.rules[j].Generate => RuleKey(j) # genLog[c][k].name

\* Two rules generate the same header with different kinds and both apply
\* to a request that lacks it; the value came from the later rule's kind.
C23_Witness ==
    \E c \in Conns :
        /\ InFlight(c)
        /\ \E i, j \in matched[c] :
             /\ i < j
             /\ RuleKey(i) = RuleKey(j)
             /\ handler.rules[i].Generate
             /\ handler.rules[j].Generate
             /\ handler.rules[i].GeneratorType # handler.rules[j].GeneratorType
             /\ genLog[c] # <<>>
             /\ genLog[c][1].type = handler.rules[j].GeneratorType

\* The last Default call injected the pod.
JustInjected == pod # podIn

\* The value http://localhost:9090.
ProxyURLText ==
    <<"h", "t", "t", "p", ":", "/", "/", "l", "o", "c", "a", "l", "h", "o", "s", "t",
      ":", "9", "0", "9", "0">>

\* The value localhost,127.0.0.1.
NoProxyText ==
    <<"l", "o", "c", "a", "l", "h", "o", "s", "t", ",", "1", "2", "7", ".", "0", ".",
      "0", ".", "1">>

C25_NoHTTPSProxy ==
    JustInjected =>
        \A i \in AppContainers(pod) :
            /\ EnvCount(pod.Containers[i], "HTTP_PROXY") >= 1
            /\ EnvCount(pod.Containers[i], "NO_PROXY") >= 1
            /\ EnvCount(pod.Containers[i], "HTTPS_PROXY") = 0

\* strconv.Atoi on a sequence of digits.
RECURSIVE DigitsValue(_)
DigitsValue(s) ==
    IF s = <<>> THEN 0
    ELSE 10 * DigitsValue(SubSeq(s, 1, Len(s) - 1))
         + (CHOOSE d \in 0..9 : Digits[d + 1] = s[Len(s)])

\* A target-port annotation that is not a number, is outside 1..65535 or
\* names the forwarder's own port.
InvalidTargetPort(s) ==
    \/ s = <<>>
    \/ \E i \in 1..Len(s) : \A d \in 1..Len(Digits) : Digits[d] # s[i]
    \/ DigitsValue(s) < 1
    \/ DigitsValue(s) > 65535
    \/ DigitsValue(s) = 9090

\* The value of the environment variable name of a container ("" as the
\* empty sequence when it is not set).
EnvValue(container, name) ==
    IF EnvCount(container, name) = 0 THEN <<>>
    ELSE container.Env[CHOOSE k \in 1..Len(container.Env) : container.Env[k].Name = name].Value

\* C26: when the target-port annotation is not a number, outside 1..65535 or
\* equal to the forwarder's port 9090, the injected forwarder's TARGET_HOST
\* is localhost:8080.
C26_InvalidPortFallsBack ==
    (/\ JustInjected
     /\ AnnotationTargetPort \in DOMAIN podIn.Annotations
     /\ InvalidTargetPort(podIn.Annotations[AnnotationTargetPort]))
        => EnvValue(pod.Containers[Len(pod.Containers)], "TARGET_HOST")
              = <<"l", "o", "c", "a", "l", "h", "o", "s", "t", ":", "8", "0", "8", "0">>

\* C27: a pod with the opt-in annotation "true" and no header declared is
\* admitted with a warning, and no forwarder container is added to it.
C27_WarnedNotInjected ==
    (/\ admissions > 0
     /\ shouldInject(podIn)
     /\ ~HeadersDeclared(podIn))
        => /\ review.allowed
           /\ review.warnings # <<>>
           /\ pod = podIn

\* C28: a pod whose declared header names are malformed, or whose
\* header-rules annotation is not well-formed JSON, is rejected with an error.
C28_MalformedRejected ==
    (/\ admissions > 0
     /\ shouldInject(podIn)
     /\ \/ \E i \in 1..Len(podExtractHeaders(podIn)) :
              ~validateHeaderName(podExtractHeaders(podIn)[i])
        \/ /\ AnnotationHeaderRules \in DOMAIN podIn.Annotations
           /\ podIn.Annotations[AnnotationHeaderRules] = <<"[", "{">>)
        => /\ ~review.allowed
           /\ review.err # ""

Listening == startup.phase = "listening"

\* C29: every configuration Load returns has a listener port different from
\* the metrics port, five strictly positive timeouts and at least one header
\* rule; in an environment where one of these fails (the two ports set to the
\* same number, a timeout set to zero or to a negative duration, or no header
\* named), Load returns an error and main is left without a configuration.
C29_LoadedConfigValid ==
    /\ Listening =>
          /\ startup.cfg.ProxyPort # startup.cfg.MetricsPort
          /\ startup.cfg.ReadTimeout > 0
          /\ startup.cfg.WriteTimeout > 0
          /\ startup.cfg.IdleTimeout > 0
          /\ startup.cfg.ReadHeaderTimeout > 0
          /\ startup.cfg.TargetDialTimeout > 0
          /\ Len(startup.cfg.HeaderRules) >= 1
    /\ (/\ startup.phase # "init"
        /\ \/ startup.env.PROXY_PORT = <<"9", "0", "9", "1">> /\ startup.env.METRICS_PORT = <<>>
           \/ startup.env.PROXY_PORT \in {<<>>, <<"a", "b", "c">>}
                /\ startup.env.METRICS_PORT = <<"9", "0", "9", "0">>
           \/ startup.env.READ_TIMEOUT \in {<<"0">>, <<"-", "5", "s">>}
           \/ startup.env.WRITE_TIMEOUT = <<"0">>
           \/ startup.env.IDLE_TIMEOUT = <<"0">>
           \/ startup.env.READ_HEADER_TIMEOUT = <<"-", "5", "s">>
           \/ startup.env.TARGET_DIAL_TIMEOUT = <<"0">>
           \/ startup.env.HEADER_RULES = <<>>
                /\ startup.env.HEADERS_TO_PROPAGATE \in {<<>>, <<<<" ">>, <<" ">>>>})
       => /\ startup.phase = "exited"
          /\ startup.cfg = NoStartup.cfg
          /\ ~running

\* C29 witnesses: a configuration was returned and a request was served
\* under it.
C29_Witness ==
    /\ Listening
    /\ startup.env.READ_TIMEOUT = <<"3", "0", "s">>
    /\ startup.cfg.ReadTimeout = 30
    /\ startup.env.PROXY_PORT = <<"9", "0", "9", "1">>
    /\ startup.cfg.MetricsPort = 9090
    /\ pc[1] = "done"

Unparsable == <<"a", "b", "c">>

\* C30 as claimed: the listener is never open in an environment one of
\* whose values failed to parse.
C30_AsClaimed ==
    running => /\ startup.env.PROXY_PORT # Unparsable
               /\ startup.env.READ_TIMEOUT # Unparsable

\* C30: a header list that fails to parse is fatal, main exits before the
\* listener is opened and no request is served by a process that exited; an
\* integer or duration setting that fails to parse is replaced by its
\* default, the listener is opened under the default and requests are served.
C30_HeaderParseFatal ==
    /\ (/\ startup.phase # "init"
        /\ startup.env.HEADER_RULES = <<>>
        /\ startup.env.HEADERS_TO_PROPAGATE = <<<<"x", " ", "r">>>>)
       => startup.phase = "exited"
    /\ startup.phase \in {"init", "exited"} =>
          /\ ~running
          /\ pc[1] = "idle"
          /\ resp[1] = NoResponse
    /\ (/\ startup.phase # "init"
        /\ startup.env = [HEADER_RULES |-> <<>>, HEADERS_TO_PROPAGATE |-> <<NameR>>,
                          PROXY_PORT |-> Unparsable, METRICS_PORT |-> <<>>,
                          READ_TIMEOUT |-> Unparsable, WRITE_TIMEOUT |-> <<>>,
                          IDLE_TIMEOUT |-> <<>>, READ_HEADER_TIMEOUT |-> <<>>,
                          TARGET_DIAL_TIMEOUT |-> <<>>])
       => /\ Listening
          /\ startup.cfg.ProxyPort = 9090
          /\ startup.cfg.ReadTimeout = 15

\* C30 witnesses: a request was answered by a process started with a port
\* and a timeout that do not parse.
C30_Witness ==
    /\ Listening
    /\ startup.env.PROXY_PORT = Unparsable
    /\ startup.env.READ_TIMEOUT = Unparsable
    /\ resp[1].status = 200
    /\ pc[1] = "done"

\* The pods a reconcile of the stored policy has to count: in the policy's
\* namespace, selected by the policy, with a container named ctxforge-proxy.
Bearing(p) ==
    /\ cluster.pods[p].exists
    /\ cluster.pods[p].ns = "default"
    /\ cluster.policy.selector = "app" => cluster.pods[p].app
    /\ cluster.pods[p].sidecar

RunningBearing == {p \in PodNames : Bearing(p) /\ cluster.pods[p].phase = "Running"}

Reconciled == cluster.result.outcome = "ok"

\* C32: after a successful reconcile the stored status has observedGeneration
\* equal to the policy's generation and appliedToPods equal to the number of
\* pods in the policy's namespace that the selector matches, that have a
\* container named ctxforge-proxy and that are Running.
C32_StatusCounts ==
    Reconciled =>
        /\ cluster.policy.status.observedGeneration = cluster.policy.generation
        /\ cluster.policy.status.appliedToPods = Cardinality(RunningBearing)

\* C32 witnesses: a reconcile counted one pod while the other one, in
\* another namespace, was running too; and one after the policy was edited.
C32_Witness ==
    /\ Reconciled
    /\ cluster.policy.status.appliedToPods = 1
    /\ cluster.policy.generation = 2
    /\ cluster.pods["p2"].exists
    /\ cluster.pods["p2"].ns = "other"
    /\ cluster.pods["p2"].phase = "Running"

\* C33: after a successful reconcile the stored Ready condition is True with
\* reason PolicyApplied exactly when at least one selected injected pod is
\* Running, and False with reason NoMatchingPods otherwise.
C33_ReadyIffRunning ==
    Reconciled =>
        /\ cluster.policy.status.ready \in
              {[status |-> "True", reason |-> "PolicyApplied"],
               [status |-> "False", reason |-> "NoMatchingPods"]}
        /\ (cluster.policy.status.ready.status = "True") <=> (RunningBearing # {})

\* C33 witnesses: Ready went back to False when the one counted pod failed.
C33_Witness ==
    /\ Reconciled
    /\ cluster.policy.status.ready = [status |-> "False", reason |-> "NoMatchingPods"]
    /\ \E p \in PodNames : Bearing(p) /\ cluster.pods[p].phase = "Failed"

\* C34: when listing the pods fails the stored Ready condition of the policy
\* is False with reason ListPodsFailed, and when the selector cannot be
\* parsed it is False with reason InvalidSelector.
C34_FailureConditionStored ==
    /\ cluster.result.outcome = "list" =>
          cluster.policy.status.ready = [status |-> "False", reason |-> "ListPodsFailed"]
    /\ cluster.result.outcome = "selector" =>
          cluster.policy.status.ready = [status |-> "False", reason |-> "InvalidSelector"]

PendingBearing == {p \in PodNames : Bearing(p) /\ cluster.pods[p].phase = "Pending"}

C36_PodsUntouched ==
    cluster.queued =>
        \A listErr \in BOOLEAN, updateErr \in BOOLEAN :
            LET after == Reconcile(cluster, listErr, updateErr)
            IN  /\ after.pods = cluster.pods
                /\ [after.policy EXCEPT !.status = cluster.policy.status] = cluster.policy

\* C36 witnesses: a reconcile has stored a status with pods of every kind
\* around it and is queued again.
C36_Witness ==
    /\ cluster.queued
    /\ cluster.policy.status.appliedToPods = 1
    /\ cluster.pods["p1"].exists /\ cluster.pods["p1"].phase = "Failed"
    /\ cluster.pods["p2"].exists /\ cluster.pods["p2"].phase = "Running"
    /\ cluster.pods["p2"].sidecar

\* Pod p is selected by the stored policy, injected and Running.
StaysRunning(p) ==
    /\ cluster.policy.exists
    /\ cluster.policy.selector # "invalid"
    /\ Bearing(p)
    /\ cluster.pods[p].phase = "Running"

ReadyApplied ==
    /\ cluster.policy.status.ready = [status |-> "True", reason |-> "PolicyApplied"]
    /\ cluster.policy.status.appliedToPods >= 1

\* C39: if a selected injected pod, created Pending, becomes Running and
\* stays Running, the stored status of the policy eventually shows
\* Ready=True with appliedToPods at least 1 and keeps showing it, whether or
\* not the watch event of the phase change is delivered.
C39_EventuallyReady ==
    \A p \in PodNames : <>[]StaysRunning(p) => <>[]ReadyApplied

\* C39 witnesses: a pod went from Pending to Running without a watch event:
\* nothing is queued, the stored status still says not Ready, and the
\* 10-second timer of the reconcile that saw it Pending is running.
C39_Witness ==
    /\ RunningBearing # {}
    /\ ~cluster.queued
    /\ cluster.timer = 10
    /\ cluster.result = NoResult
    /\ cluster.policy.status.ready = [status |-> "False", reason |-> "NoMatchingPods"]

\* C31: the read, read-header, write and idle timeouts of the listener are
\* the ones loaded from READ_TIMEOUT, READ_HEADER_TIMEOUT, WRITE_TIMEOUT and
\* IDLE_TIMEOUT.
C31_TimeoutsAsConfigured ==
    Listening =>
        /\ startup.srv.ReadTimeout = startup.cfg.ReadTimeout
        /\ startup.srv.ReadHeaderTimeout = startup.cfg.ReadHeaderTimeout
        /\ startup.srv.WriteTimeout = startup.cfg.WriteTimeout
        /\ startup.srv.IdleTimeout = startup.cfg.IdleTimeout

\* C37: with rate limiting enabled and burst b, of the n requests the
\* limiter was asked about since it was built, with no refill in between,
\* exactly min(n, b) were admitted; and the requests of concurrent
\* connections that were admitted are never more than b.
C37_BurstAdmitted ==
    (limiter.enabled /\ ~window.refilled) =>
        /\ window.passed = IF window.calls < limiter.burst THEN window.calls
                           ELSE limiter.burst
        /\ Cardinality({c \in ServerConns : admitted[c] = "allowed"}) <= limiter.burst

\* C37 witnesses: three requests arrived at a limiter of burst 2 with no
\* refill, two of them concurrently, and two were admitted.
C37_Witness ==
    /\ limiter.enabled
    /\ limiter.burst = 2
    /\ ~window.refilled
    /\ window.calls = 3
    /\ window.passed = 2
    /\ \A c \in ServerConns : pc[c] # "idle"

\* The requests inside the proxy handler: ServeHTTP was entered and has
\* neither returned nor panicked.
InsideHandler == {c \in Conns : pc[c] \in {"extracted", "sent"}}

\* C38: the active-connections gauge equals the number of requests inside
\* the proxy handler, whatever way the earlier ones left it (answer copied,
\* upstream failure, panic); so it is never below its initial value and is
\* back at it when no request is inside.
C38_GaugeCountsInside ==
    /\ active.gauge = Cardinality(InsideHandler)
    /\ active.gauge >= 0
    /\ InsideHandler = {} => active.gauge = 0

\* C38 witnesses: a request failed on the unreachable upstream while a second
\* one is inside the handler.
C38_Witness ==
    /\ active.gauge = 1
    /\ \E c \in ServerConns : pc[c] = "failed" /\ resp[c].status = 502
    /\ \E c \in ServerConns : pc[c] = "extracted"

\* C40: in every pod the mutating webhook returns, the injected marker is
\* present only if a container named ctxforge-proxy is; no pod that opted in
\* and declared headers leaves admission marked and without the forwarder.
C40_MarkerImpliesForwarder ==
    admissions >= 1 =>
        (AnnotationInjected \in DOMAIN pod.Annotations => Forwarders(pod) # {})

====
